---- MODULE Spec2Model ----
(***************************************************************************)
(* Model of the vision scanner of trackov (src/vision/scanner.js): the     *)
(* Scanner singleton with its template cache, the single-flight scan       *)
(* orchestration of scanScreen, the catalog load of loadTemplates, the     *)
(* screen capture, the multi-scale matching loop and removeDuplicates;     *)
(* of isNewerVersion and the KeybindSettings dialog                         *)
(* (src/src/services/autoUpdate.js); of the overlay window module          *)
(* (src/electron/overlayWindow.js); and of waitForService and the          *)
(* gear-scan handlers of the main process (src/unnamed/part_006) with the  *)
(* overlay's scan listeners (src/src/Overlay.jsx).  Each part has its own  *)
(* specification; the others' variables stay at their initial values.      *)
(*                                                                         *)
(* Correlation values are integers in hundredths (0.8 is 80, -1 is -100),  *)
(* scale factors are percentages (0.8 is 80).  A bounding-box centre       *)
(* x + width / 2 is kept doubled (2x + width) so that it stays an integer. *)
(*                                                                         *)
(* JavaScript runs a handler to completion: an async function is one       *)
(* action per stretch of code between two awaits.  The synchronous         *)
(* matching stretch of scanScreen is split into steps that run under       *)
(* `running`, which no other call can interleave with.  A call that has    *)
(* settled keeps `running` until its caller's continuation has taken the   *)
(* result.                                                                 *)
(***************************************************************************)
EXTENDS Integers, Sequences, FiniteSets, TLC

\* ---------------------------------------------------------------- bounds
NumCallers == 2      \* concurrent callers of the Scanner singleton
MaxCalls == 2        \* calls of scanScreen / loadTemplates in one run
MaxFiles == 2        \* image files in the catalog directory
MaxDets == 3         \* length of the lists given to removeDuplicates
MaxParts == 3        \* dot-separated parts of a version string
MaxInFlight == 2     \* handlers of one kind awaiting the scanner service

\* ------------------------------------------------------ program constants
confidenceThreshold == 80
TemplateSize == 64
DedupTolerance == 20
InitialBestVal == -100
VersionLoopParts == 3

scales == <<80, 90, 100, 110, 120>>

Callers == 1..NumCallers

\* what minMaxLoc may report for a correlation surface: the maximum value,
\* just below, at and above the threshold, and where it lies
MinMaxResults ==
  { [maxVal |-> confidenceThreshold - 1, maxLoc |-> <<0, 0>>],
    [maxVal |-> confidenceThreshold, maxLoc |-> <<0, 0>>],
    [maxVal |-> confidenceThreshold + 10, maxLoc |-> <<300, 200>>] }
\* sizes of the thumbnail desktopCapturer may deliver
FrameSizes == {<<1920, 1080>>, <<64, 64>>, <<40, 40>>}

NoFrame == [width |-> 0, height |-> 0]
NoBest == [val |-> InitialBestVal, x |-> 0, y |-> 0, width |-> 0, height |-> 0, scale |-> 0]
Pending == [kind |-> "pending", value |-> <<>>]
Resolved(v) == [kind |-> "resolved", value |-> v]
Rejected(e) == [kind |-> "rejected", value |-> e]

\* the catalog directory: the image files readdir lists, in order, each
\* either decodable or corrupt
Catalogs ==
  UNION {[1..n -> {f \in [name : 1..MaxFiles, ok : BOOLEAN] : TRUE}] : n \in 0..MaxFiles}

WellFormedCatalog(cat) == \A i \in 1..Len(cat) : cat[i].name = i

VARIABLES
  isScanning,       \* Scanner.isScanning
  cvLoaded,         \* Scanner.cvLoaded
  templatesCache,   \* Scanner.templatesCache, in Map insertion order
  liveMats,         \* cv.Mat handles allocated and not deleted
  catalog,          \* image files of assets/kappa-icons
  dirOk,            \* whether readdir of the catalog directory succeeds
  running,          \* the call whose synchronous stretch is on the stack, 0 if none
  calls,            \* number of calls made so far
  kind,             \* per caller: which method it called
  pc,               \* per caller: where its call is suspended
  initing,          \* per caller: its ensureOpenCV started an initialisation
  fileIdx,          \* per caller: loadTemplates' position in imageFiles
  cacheAtCall,      \* per caller: templatesCache when loadTemplates was entered
  loadedBefore,     \* per caller: a loadTemplates had completed when it was entered
  loadErrors,       \* per caller: the files loadTemplates logged as failed, in order
  screenData,       \* per caller: the frame captureScreen returned
  screenGray,       \* per caller: the grayscale frame Mat
  matches,          \* per caller: the matches array of scanScreen
  tIdx,             \* per caller: position of the template loop
  sIdx,             \* per caller: position of the scale loop
  bestForTemplate,  \* per caller: bestForTemplate of the template loop
  tried,            \* per caller: the maxVal values seen so far for the current template
  attempts,         \* per caller: scales correlated so far for the current template
  captures,         \* per caller: captureScreen calls of the current scan
  ret,              \* per caller: what the promise of the call settled to
  outcome,          \* per caller: the final log line of the call
  error,            \* per caller: the error the call logged
  loadCompleted,    \* some loadTemplates call has run to its last line
  scanLoads,        \* number of loadTemplates calls scanScreen has made
  dedupIn,          \* argument of a direct removeDuplicates call, as passed
  dedupArr,         \* the argument array, which the call sorts in place
  dedupOut,         \* its result
  dedupDone,        \* whether the direct call has run
  verCurrent,       \* first argument of isNewerVersion, a string (of characters)
  verLatest,        \* second argument of isNewerVersion
  verResult,        \* isNewerVersion(current, latest)
  verReverse,       \* isNewerVersion(latest, current)
  verDone           \* whether the two calls have run

\* electron/overlayWindow.js: the module's state and the overlay window
VARIABLES
  overlayWindow,           \* "null", or the window: "hidden" or "visible"
  ignoreMouseEvents,       \* the window's setIgnoreMouseEvents setting
  mouseTrackingInterval,   \* whether the 30 ms interval is set
  isCurrentlyInteractive,
  manualInteractiveMode,
  itemBoxes,               \* sequence of {x, y, width, height, index}
  currentHoveredIndex,
  hoverSent,               \* the last two indices sent on 'item-hover'
  lastTick                 \* cursor and manual mode read by the latest tick

overlayVars == <<overlayWindow, ignoreMouseEvents, mouseTrackingInterval,
                 isCurrentlyInteractive, manualInteractiveMode, itemBoxes,
                 currentHoveredIndex, hoverSent, lastTick>>

\* electron main process: waitForService and the loading state
VARIABLES
  loadingState,      \* {isLoading, progress}; the message is left out
  loadingSent,       \* the states sent on 'scanner-loading-progress': the last one
  mainWindowOpen,    \* mainWindow && !mainWindow.isDestroyed()
  wsPc,              \* where waitForService is
  wsMaxRetries,      \* its argument
  wsI,               \* its loop counter i
  wsUnanswered,      \* fetches that threw or were not ok
  wsResponse         \* what the latest fetch gave

waitVars == <<loadingState, loadingSent, mainWindowOpen, wsPc, wsMaxRetries, wsI,
              wsUnanswered, wsResponse>>

\* the KeybindSettings dialog (in services/autoUpdate.js)
VARIABLES
  keybinds,          \* the component's state {gearScan, ocrScan}
  listening,         \* "null", or the action waiting for a key
  keybindError,      \* "null", or the action named in the error shown
  savedKeybinds,     \* localStorage 'keybinds': <<>> or the saved object
  sentKeybinds,      \* the argument of the last window.electron.updateKeybinds
  updateSeq,         \* alternates with every updateKeybinds call
  dialogOpen         \* the isOpen property

keybindVars == <<keybinds, listening, keybindError, savedKeybinds, sentKeybinds,
                 updateSeq, dialogOpen>>

\* the gear-scan handlers of the main process and the overlay they drive
VARIABLES
  gearScans,          \* gearScanHandler calls awaiting doGearScan
  gearListens,        \* gearScanHandler calls awaiting startScrollListener
  tabRegistered,      \* whether the Tab shortcut is registered
  tabStops,           \* Tab handlers awaiting stopScrollListener
  scrollListener,     \* whether the 50 ms polling interval is set
  scrollChecks,       \* polling callbacks awaiting the scroll check
  rescanTimeout,      \* "null", or the handle of an "armed" or "fired" timer
  rescans,            \* doGearScan(overlayWin, true) calls awaiting the service
  overlayIsScanning,  \* Overlay.jsx: isScanning
  overlayIsVisible,   \* Overlay.jsx: isVisible
  overlayShowItems,   \* Overlay.jsx: showItems
  gearPhase,          \* "idle"; "active" since the hotkey; "hidden" since
                      \* Tab; "closed" once the Tab handler has finished
  rescanResultSent    \* a re-scan reported success since the hotkey or Tab

gearVars == <<gearScans, gearListens, tabRegistered, tabStops, scrollListener,
              scrollChecks, rescanTimeout, rescans, overlayIsScanning,
              overlayIsVisible, overlayShowItems, gearPhase, rescanResultSent>>
uiVars == <<overlayVars, waitVars, keybindVars, gearVars>>

scanVars == <<isScanning, cvLoaded, templatesCache, liveMats, catalog, dirOk, running,
              calls, kind, pc, initing, fileIdx, cacheAtCall, loadedBefore, loadErrors, screenData,
              screenGray, matches, tIdx, sIdx, bestForTemplate, tried, attempts, captures,
              ret, outcome,
              error, loadCompleted, scanLoads>>
dedupVars == <<dedupIn, dedupArr, dedupOut, dedupDone>>
versionVars == <<verCurrent, verLatest, verResult, verReverse, verDone>>
vars == <<isScanning, cvLoaded, templatesCache, liveMats, catalog, dirOk, running,
          calls, kind, pc, initing, fileIdx, cacheAtCall, loadedBefore, loadErrors, screenData,
          screenGray, matches, tIdx, sIdx, bestForTemplate, tried, attempts, captures,
          ret, outcome,
          error, loadCompleted, scanLoads, dedupIn, dedupArr, dedupOut, dedupDone,
          verCurrent, verLatest, verResult, verReverse, verDone,
          uiVars>>

\* ---------------------------------------------------------------- helpers
Abs(n) == IF n < 0 THEN -n ELSE n

\* Math.round(size * scale) for a scale given in percent
Round(size, scale) == (size * scale + 50) \div 100

\* new cv.Mat(): a Mat is known by what it holds (for a template Mat the
\* item it belongs to) and a serial number that tells it from every live
\* Mat holding the same
NewMat(live, role, item) ==
  [role |-> role, item |-> item,
   n |-> CHOOSE n \in 1..(Cardinality(live) + 1) :
           /\ [role |-> role, item |-> item, n |-> n] \notin live
           /\ \A k \in 1..(n - 1) : [role |-> role, item |-> item, n |-> k] \in live]
NoMat == [role |-> "none", item |-> 0, n |-> 0]

\* the largest of a set of correlation values, -1 for the empty set
MaxOfSet(S) ==
  IF S = {} THEN InitialBestVal ELSE CHOOSE v \in S : \A w \in S : w <= v

\* position of the entry with the given name in a cache, 0 if absent
RECURSIVE CacheIndex(_, _)
CacheIndex(cache, name) ==
  IF Len(cache) = 0 THEN 0
  ELSE IF cache[Len(cache)].name = name THEN Len(cache)
  ELSE CacheIndex(SubSeq(cache, 1, Len(cache) - 1), name)

\* Map.prototype.set: replaces in place, else appends
CacheSet(cache, entry) ==
  LET i == CacheIndex(cache, entry.name) IN
  IF i = 0 THEN Append(cache, entry) ELSE [cache EXCEPT ![i] = entry]


\* ------------------------------------------------------- removeDuplicates
\* doubled centre coordinates of a detection
CentreX2(m) == 2 * m.x + m.width
CentreY2(m) == 2 * m.y + m.height

\* the predicate of unique.some(...): dx < 20 && dy < 20
Overlaps(existing, match) ==
  /\ Abs(CentreX2(existing) - CentreX2(match)) < 2 * DedupTolerance
  /\ Abs(CentreY2(existing) - CentreY2(match)) < 2 * DedupTolerance

\* the comparator of matches.sort: b.confidence - a.confidence, negative
\* when a goes first
SortsBeforeAscending(a, b) == a.confidence < b.confidence
SortsBefore(a, b) == a.confidence > b.confidence

\* Array.prototype.sort is stable: an element moves in front of exactly
\* the elements the comparator puts it before
RECURSIVE InsertSorted(_, _)
InsertSorted(sorted, m) ==
  IF Len(sorted) = 0 THEN <<m>>
  ELSE IF SortsBefore(m, sorted[Len(sorted)])
       THEN Append(InsertSorted(SubSeq(sorted, 1, Len(sorted) - 1), m), sorted[Len(sorted)])
       ELSE Append(sorted, m)

RECURSIVE SortMatches(_)
SortMatches(ms) ==
  IF Len(ms) = 0 THEN <<>>
  ELSE InsertSorted(SortMatches(SubSeq(ms, 1, Len(ms) - 1)), ms[Len(ms)])

\* the loop body of removeDuplicates: push unless some kept match overlaps
KeepAlways(unique, match) == Append(unique, match)
KeepIfIsolatedOnX(unique, match) ==
  IF \E i \in 1..Len(unique) :
       Abs(CentreX2(unique[i]) - CentreX2(match)) < 2 * DedupTolerance
  THEN unique ELSE Append(unique, match)
KeepUnlessOverlaps(unique, match) ==
  IF \E i \in 1..Len(unique) : Overlaps(unique[i], match)
  THEN unique ELSE Append(unique, match)

RECURSIVE WalkSorted(_, _)
WalkSorted(unique, sorted) ==
  IF Len(sorted) = 0 THEN unique
  ELSE WalkSorted(KeepUnlessOverlaps(unique, Head(sorted)), Tail(sorted))

removeDuplicates(ms) == WalkSorted(<<>>, SortMatches(ms))


\* ------------------------------------------------------------------ Init
ScanInit ==
  /\ isScanning = FALSE
  /\ cvLoaded = FALSE
  /\ templatesCache = <<>>
  /\ liveMats = {}
  /\ running = 0
  /\ calls = 0
  /\ kind = [c \in Callers |-> "none"]
  /\ pc = [c \in Callers |-> "idle"]
  /\ initing = [c \in Callers |-> FALSE]
  /\ fileIdx = [c \in Callers |-> 0]
  /\ cacheAtCall = [c \in Callers |-> <<>>]
  /\ loadedBefore = [c \in Callers |-> FALSE]
  /\ loadErrors = [c \in Callers |-> <<>>]
  /\ screenData = [c \in Callers |-> NoFrame]
  /\ screenGray = [c \in Callers |-> NoMat]
  /\ matches = [c \in Callers |-> <<>>]
  /\ tIdx = [c \in Callers |-> 0]
  /\ sIdx = [c \in Callers |-> 0]
  /\ bestForTemplate = [c \in Callers |-> NoBest]
  /\ tried = [c \in Callers |-> {}]
  /\ attempts = [c \in Callers |-> 0]
  /\ captures = [c \in Callers |-> 0]
  /\ ret = [c \in Callers |-> Pending]
  /\ outcome = [c \in Callers |-> "none"]
  /\ error = [c \in Callers |-> "none"]
  /\ loadCompleted = FALSE
  /\ scanLoads = 0

DedupIdle ==
  /\ dedupIn = <<>>
  /\ dedupArr = <<>>
  /\ dedupOut = <<>>
  /\ dedupDone = FALSE

VersionIdle ==
  /\ verCurrent = <<>>
  /\ verLatest = <<>>
  /\ verResult = FALSE
  /\ verReverse = FALSE
  /\ verDone = FALSE

\* overlayWindow.js:7-14, before createOverlayWindow
OverlayIdle ==
  /\ overlayWindow = "null"
  /\ ignoreMouseEvents = TRUE
  /\ mouseTrackingInterval = FALSE
  /\ isCurrentlyInteractive = FALSE
  /\ manualInteractiveMode = FALSE
  /\ itemBoxes = <<>>
  /\ currentHoveredIndex = -1
  /\ hoverSent = <<>>
  /\ lastTick = <<>>

\* part_006:23-28, before waitForService is called
WaitIdle ==
  /\ loadingState = [isLoading |-> TRUE, progress |-> 0]
  /\ loadingSent = <<>>
  /\ mainWindowOpen = TRUE
  /\ wsPc = "idle"
  /\ wsMaxRetries = 0
  /\ wsI = 0
  /\ wsUnanswered = 0
  /\ wsResponse = "none"

\* a keybind string: the 'Ctrl+', 'Shift+', 'Alt+' prefixes present and the key
Binding(ctrl, shift, alt, key) == <<ctrl, shift, alt, key>>
\* the empty string of a cleared keybind
NoKey == <<>>

\* const DEFAULT_KEYBINDS = { gearScan: 'F3', ocrScan: 'F4' }
DEFAULT_KEYBINDS == [gearScan |-> Binding(FALSE, FALSE, FALSE, "F3"),
                     ocrScan |-> Binding(FALSE, FALSE, FALSE, "F4")]

\* the dialog as mounted with an empty localStorage, not shown
KeybindIdle ==
  /\ keybinds = DEFAULT_KEYBINDS
  /\ listening = "null"
  /\ keybindError = "null"
  /\ savedKeybinds = <<>>
  /\ sentKeybinds = <<>>
  /\ updateSeq = 0
  /\ dialogOpen = FALSE

\* part_006:832-833 and Overlay.jsx:42-46, before any hotkey
GearIdle ==
  /\ gearScans = 0
  /\ gearListens = 0
  /\ tabRegistered = FALSE
  /\ tabStops = 0
  /\ scrollListener = FALSE
  /\ scrollChecks = 0
  /\ rescanTimeout = "null"
  /\ rescans = 0
  /\ overlayIsScanning = FALSE
  /\ overlayIsVisible = FALSE
  /\ overlayShowItems = TRUE
  /\ gearPhase = "idle"
  /\ rescanResultSent = FALSE

UiIdle == OverlayIdle /\ WaitIdle /\ KeybindIdle /\ GearIdle

Init ==
  /\ ScanInit
  /\ DedupIdle
  /\ VersionIdle
  /\ UiIdle
  /\ catalog \in {cat \in Catalogs : WellFormedCatalog(cat)}
  /\ dirOk \in BOOLEAN
  /\ ~dirOk => catalog = <<>>

\* --------------------------------------------------- scanScreen: the exits
\* the finally block of scanScreen
ScanFinallyKeepsFlag == UNCHANGED isScanning
ScanFinally == isScanning' = FALSE

\* what the caller of scanScreen gets when the try block threw
CatchResult(err) == Resolved(<<>>)

\* catch (error) { this.error(...); return []; } finally { ... }
ScanCatch(c, err) ==
  /\ pc' = [pc EXCEPT ![c] = "done"]
  /\ ret' = [ret EXCEPT ![c] = CatchResult(err)]
  /\ outcome' = [outcome EXCEPT ![c] = "failed"]
  /\ error' = [error EXCEPT ![c] = err]
  /\ running' = c
  /\ ScanFinally

\* ------------------------------------------------------------ ensureOpenCV
\* ensureOpenCV returns at once when OpenCV is loaded, else it starts an
\* initialisation that the caller awaits
StartsInit == ~cvLoaded

\* --------------------------------------------------------- loadTemplates
\* entry of loadTemplates up to its first await
LoadEnter(c) ==
  /\ cacheAtCall' = [cacheAtCall EXCEPT ![c] = templatesCache]
  /\ loadedBefore' = [loadedBefore EXCEPT ![c] = loadCompleted]
  /\ fileIdx' = [fileIdx EXCEPT ![c] = 0]
  /\ loadErrors' = [loadErrors EXCEPT ![c] = <<>>]

\* captureScreen is entered: scanScreen awaits it
CaptureEnter(c) ==
  /\ pc' = [pc EXCEPT ![c] = "cap_src"]
  /\ captures' = [captures EXCEPT ![c] = @ + 1]

\* loadTemplates returns n to its caller
LoadReturn(c, n, err) ==
  /\ error' = [error EXCEPT ![c] = err]
  /\ IF kind[c] = "load"
     THEN /\ pc' = [pc EXCEPT ![c] = "done"]
          /\ ret' = [ret EXCEPT ![c] = Resolved(n)]
          /\ outcome' = [outcome EXCEPT ![c] = "loaded"]
          /\ running' = c
          /\ UNCHANGED captures
     ELSE /\ CaptureEnter(c)
          /\ UNCHANGED <<ret, outcome, running>>


loadLocals == <<fileIdx, cacheAtCall, loadedBefore, loadErrors>>
passLocals == <<screenData, screenGray, matches, tIdx, sIdx, bestForTemplate, tried,
                attempts>>
matchLocals == <<passLocals, captures>>
env == <<catalog, dirOk>>

\* the callers are interchangeable: the next call is made by the idle
\* caller with the lowest number
CanCall(c) ==
  /\ pc[c] = "idle"
  /\ \A d \in Callers : d < c => pc[d] # "idle"
  /\ calls < MaxCalls

\* --------------------------------------------- scanScreen: guard and entry
\* if (this.isScanning)
ScanInProgressNever == FALSE
ScanInProgress == isScanning

\* { this.log('Scan already in progress...'); return []; }
ScanRejectClearsFlag(c) ==
  /\ pc' = [pc EXCEPT ![c] = "done"]
  /\ ret' = [ret EXCEPT ![c] = Resolved(<<>>)]
  /\ outcome' = [outcome EXCEPT ![c] = "in_progress"]
  /\ running' = c
  /\ isScanning' = FALSE
  /\ UNCHANGED initing
ScanRejectThrows(c) ==
  /\ pc' = [pc EXCEPT ![c] = "done"]
  /\ ret' = [ret EXCEPT ![c] = Rejected("busy")]
  /\ outcome' = [outcome EXCEPT ![c] = "in_progress"]
  /\ running' = c
  /\ UNCHANGED <<isScanning, initing>>
ScanReject(c) ==
  /\ pc' = [pc EXCEPT ![c] = "done"]
  /\ ret' = [ret EXCEPT ![c] = Resolved(<<>>)]
  /\ outcome' = [outcome EXCEPT ![c] = "in_progress"]
  /\ running' = c
  /\ UNCHANGED <<isScanning, initing>>

\* scanScreen from its entry to the await of ensureOpenCV, or to the
\* return of the rejected request
ScanRequest(c) ==
  /\ running = 0
  /\ CanCall(c)
  /\ calls' = calls + 1
  /\ kind' = [kind EXCEPT ![c] = "scan"]
  /\ IF ScanInProgress
     THEN ScanReject(c)
     ELSE /\ isScanning' = TRUE
          /\ initing' = [initing EXCEPT ![c] = StartsInit]
          /\ pc' = [pc EXCEPT ![c] = "scan_cv"]
          /\ UNCHANGED <<ret, outcome, running>>
  /\ UNCHANGED <<cvLoaded, templatesCache, liveMats, env, loadCompleted, scanLoads, error,
                 loadLocals, matchLocals, dedupVars, versionVars, uiVars>>

\* if (this.templatesCache.size === 0)
CacheIsEmpty == Len(templatesCache) = 0

\* the await of ensureOpenCV in scanScreen settles; on success scanScreen
\* goes on to loadTemplates or to captureScreen
ScanCVDone(c) ==
  /\ running = 0
  /\ pc[c] = "scan_cv"
  /\ \/ /\ cvLoaded' = (cvLoaded \/ initing[c])
        /\ initing' = [initing EXCEPT ![c] = FALSE]
        /\ IF CacheIsEmpty
           THEN /\ LoadEnter(c)
                /\ scanLoads' = scanLoads + 1
                /\ pc' = [pc EXCEPT ![c] = "load_cv"]
                /\ UNCHANGED captures
           ELSE /\ CaptureEnter(c)
                /\ UNCHANGED <<loadLocals, scanLoads>>
        /\ UNCHANGED <<isScanning, running, ret, outcome, error>>
     \/ /\ initing[c]
        /\ ScanCatch(c, "opencv")
        /\ UNCHANGED <<cvLoaded, initing, loadLocals, scanLoads, captures>>
  /\ UNCHANGED <<templatesCache, liveMats, env, calls, loadCompleted, kind, passLocals,
                 dedupVars, versionVars, uiVars>>

\* ------------------------------------------------- loadTemplates: the steps
\* a direct call of loadTemplates, up to the await of ensureOpenCV
LoadRequest(c) ==
  /\ running = 0
  /\ CanCall(c)
  /\ calls' = calls + 1
  /\ kind' = [kind EXCEPT ![c] = "load"]
  /\ initing' = [initing EXCEPT ![c] = StartsInit]
  /\ pc' = [pc EXCEPT ![c] = "load_cv"]
  /\ LoadEnter(c)
  /\ UNCHANGED <<isScanning, cvLoaded, templatesCache, liveMats, env, running,
                 loadCompleted, scanLoads, ret, outcome, error, matchLocals, dedupVars,
                 versionVars, uiVars>>

\* the await of ensureOpenCV in loadTemplates settles; a failure leaves
\* loadTemplates through line 103, outside its try block
LoadCVDone(c) ==
  /\ running = 0
  /\ pc[c] = "load_cv"
  /\ \/ /\ cvLoaded' = (cvLoaded \/ initing[c])
        /\ initing' = [initing EXCEPT ![c] = FALSE]
        /\ pc' = [pc EXCEPT ![c] = "load_dir"]
        /\ UNCHANGED <<isScanning, running, ret, outcome, error>>
     \/ /\ initing[c]
        /\ IF kind[c] = "load"
           THEN /\ pc' = [pc EXCEPT ![c] = "done"]
                /\ ret' = [ret EXCEPT ![c] = Rejected("opencv")]
                /\ outcome' = [outcome EXCEPT ![c] = "failed"]
                /\ error' = [error EXCEPT ![c] = "opencv"]
                /\ running' = c
                /\ UNCHANGED isScanning
           ELSE ScanCatch(c, "opencv")
        /\ UNCHANGED <<cvLoaded, initing>>
  /\ UNCHANGED <<templatesCache, liveMats, env, calls, loadCompleted, scanLoads, kind,
                 loadLocals, matchLocals, dedupVars, versionVars, uiVars>>

\* readdir settles: an unreadable directory and an empty one both return 0
LoadDirDone(c) ==
  /\ running = 0
  /\ pc[c] = "load_dir"
  /\ IF ~dirOk
     THEN LoadReturn(c, 0, "readdir") /\ UNCHANGED fileIdx
     ELSE IF Len(catalog) = 0
     THEN LoadReturn(c, 0, error[c]) /\ UNCHANGED fileIdx
     ELSE /\ pc' = [pc EXCEPT ![c] = "load_file"]
          /\ fileIdx' = [fileIdx EXCEPT ![c] = 1]
          /\ UNCHANGED <<ret, outcome, error, running, captures>>
  /\ UNCHANGED <<isScanning, cvLoaded, templatesCache, liveMats, env, calls,
                 loadCompleted, scanLoads, kind, initing, cacheAtCall, loadedBefore, loadErrors,
                 passLocals, dedupVars, versionVars, uiVars>>

\* the entry loadTemplates stores for a decoded file
TemplateEntry(name, mat) ==
  [name |-> name, mat |-> mat, width |-> TemplateSize, height |-> TemplateSize]

\* the body of the per-file try block: a decoded file is stored under its
\* base name, a corrupt one throws before templatesCache.set
StoreEvenCorrupt(cache, file, grayMat) == CacheSet(cache, TemplateEntry(file.name, grayMat))
StoreDecoded(cache, file, grayMat) ==
  IF file.ok THEN CacheSet(cache, TemplateEntry(file.name, grayMat)) ELSE cache

\* catch (err) { this.error(`Failed to load ${file}`, err); }
LogFailure(errors, file) == IF file.ok THEN errors ELSE Append(errors, file.name)

\* readFile and the sharp pipeline of one file settle (no state is touched
\* between the two awaits); a decoded file gets a fresh grayscale Mat (its
\* RGBA Mat is deleted at once) that is stored under the file's base name,
\* a corrupt one is logged and skipped
LoadFileDone(c) ==
  /\ running = 0
  /\ pc[c] = "load_file"
  /\ LET file == catalog[fileIdx[c]]
         grayMat == NewMat(liveMats, "template", file.name)
         cache2 == StoreDecoded(templatesCache, file, grayMat)
     IN /\ templatesCache' = cache2
        /\ loadErrors' = [loadErrors EXCEPT ![c] = LogFailure(@, file)]
        /\ liveMats' = IF file.ok THEN liveMats \cup {grayMat} ELSE liveMats
        /\ IF fileIdx[c] = Len(catalog)
           THEN /\ LoadReturn(c, Len(cache2), error[c])
                /\ loadCompleted' = TRUE
                /\ UNCHANGED fileIdx
           ELSE /\ fileIdx' = [fileIdx EXCEPT ![c] = @ + 1]
                /\ UNCHANGED <<pc, ret, outcome, error, loadCompleted, running, captures>>
  /\ UNCHANGED <<isScanning, cvLoaded, env, calls, scanLoads, kind, initing, cacheAtCall,
                 loadedBefore, passLocals, dedupVars, versionVars, uiVars>>


\* ------------------------------------------------------------ captureScreen
\* desktopCapturer.getSources settles: with no source captureScreen throws,
\* logs and rethrows into the try block of scanScreen
CapSourcesDone(c) ==
  /\ running = 0
  /\ pc[c] = "cap_src"
  /\ \/ ScanCatch(c, "no_sources")
     \/ /\ pc' = [pc EXCEPT ![c] = "cap_img"]
        /\ UNCHANGED <<isScanning, running, ret, outcome, error>>
  /\ UNCHANGED <<cvLoaded, templatesCache, liveMats, env, calls, loadCompleted, scanLoads, kind,
                 initing, loadLocals, matchLocals, dedupVars, versionVars, uiVars>>

\* const screenData = await this.captureScreen(): the frame is a local of
\* the call
StoreFrameShared(c, frame) == [d \in Callers |-> frame]
StoreFrame(c, frame) == [screenData EXCEPT ![c] = frame]

\* the sharp conversion of the thumbnail settles and captureScreen returns
\* the frame
CapImageDone(c) ==
  /\ running = 0
  /\ pc[c] = "cap_img"
  /\ \/ /\ ScanCatch(c, "capture_image")
        /\ UNCHANGED screenData
     \/ /\ \E size \in FrameSizes :
             screenData' = StoreFrame(c, [width |-> size[1], height |-> size[2]])
        /\ pc' = [pc EXCEPT ![c] = "prepare"]
        /\ UNCHANGED <<isScanning, running, ret, outcome, error>>
  /\ UNCHANGED <<cvLoaded, templatesCache, liveMats, env, calls, loadCompleted, scanLoads, kind,
                 initing, loadLocals, screenGray, matches, tIdx, sIdx, bestForTemplate,
                 tried, attempts, captures, dedupVars, versionVars, uiVars>>

\* ------------------------------------------- scanScreen: the matching pass
\* scanScreen resumes with the frame: the frame Mats are made, the RGBA one
\* is deleted, and the template loop starts
ScanPrepare(c) ==
  /\ running = 0
  /\ pc[c] = "prepare"
  /\ LET screenMat == NewMat(liveMats, "screenMat", 0)
         gray == NewMat(liveMats, "screenGray", 0)
     IN \/ /\ ScanCatch(c, "cvtColor")
           /\ liveMats' = liveMats \cup {screenMat, gray}
           /\ UNCHANGED <<screenGray, matches, tIdx, sIdx, bestForTemplate, tried, attempts>>
        \/ /\ liveMats' = liveMats \cup {gray}
           /\ screenGray' = [screenGray EXCEPT ![c] = gray]
           /\ matches' = [matches EXCEPT ![c] = <<>>]
           /\ running' = c
           /\ IF CacheIsEmpty
              THEN /\ pc' = [pc EXCEPT ![c] = "dedupe"]
                   /\ UNCHANGED <<tIdx, sIdx, bestForTemplate, tried, attempts>>
              ELSE /\ pc' = [pc EXCEPT ![c] = "match"]
                   /\ tIdx' = [tIdx EXCEPT ![c] = 1]
                   /\ sIdx' = [sIdx EXCEPT ![c] = 1]
                   /\ bestForTemplate' = [bestForTemplate EXCEPT ![c] = NoBest]
                   /\ tried' = [tried EXCEPT ![c] = {}]
                   /\ attempts' = [attempts EXCEPT ![c] = 0]
           /\ UNCHANGED <<isScanning, ret, outcome, error>>
  /\ UNCHANGED <<cvLoaded, templatesCache, env, calls, loadCompleted, scanLoads, kind, initing,
                 loadLocals, screenData, captures, dedupVars, versionVars, uiVars>>

\* if (scaledWidth > screenGray.cols || scaledHeight > screenGray.rows) continue
ScaleSkippedAtEdge(scaledWidth, scaledHeight, frame) ==
  scaledWidth >= frame.width \/ scaledHeight >= frame.height
ScaleSkipped(scaledWidth, scaledHeight, frame) ==
  scaledWidth > frame.width \/ scaledHeight > frame.height

\* if (minMax.maxVal > bestForTemplate.val) bestForTemplate = {...}
UpdateBestOnTie(best, minMax, scaledWidth, scaledHeight, scale) ==
  IF minMax.maxVal >= best.val
  THEN [val |-> minMax.maxVal, x |-> minMax.maxLoc[1], y |-> minMax.maxLoc[2],
        width |-> scaledWidth, height |-> scaledHeight, scale |-> scale]
  ELSE best
UpdateBest(best, minMax, scaledWidth, scaledHeight, scale) ==
  IF minMax.maxVal > best.val
  THEN [val |-> minMax.maxVal, x |-> minMax.maxLoc[1], y |-> minMax.maxLoc[2],
        width |-> scaledWidth, height |-> scaledHeight, scale |-> scale]
  ELSE best

\* the end of one pass of the scale loop
NextScale(c) ==
  IF sIdx[c] = Len(scales)
  THEN pc' = [pc EXCEPT ![c] = "emit"] /\ UNCHANGED sIdx
  ELSE sIdx' = [sIdx EXCEPT ![c] = @ + 1] /\ UNCHANGED pc

\* one pass of the scale loop: skip, or resize and correlate.  resize and
\* matchTemplate may throw; nothing in the loop catches, so the exception
\* leaves the loops for the catch of scanScreen with the Mats of the pass
\* (and the frame Mat) undeleted
MatchScale(c) ==
  /\ running = c
  /\ pc[c] = "match"
  /\ LET template == templatesCache[tIdx[c]]
         scale == scales[sIdx[c]]
         scaledWidth == Round(template.width, scale)
         scaledHeight == Round(template.height, scale)
         frame == screenData[c]
         scaledTempl == NewMat(liveMats, "scaledTempl", 0)
         result == NewMat(liveMats, "result", 0)
     IN IF ScaleSkipped(scaledWidth, scaledHeight, frame)
        THEN /\ NextScale(c)
             /\ UNCHANGED <<bestForTemplate, tried, attempts, liveMats, isScanning, running,
                            ret, outcome, error>>
        ELSE \/ /\ ScanCatch(c, "resize")
                /\ liveMats' = liveMats \cup {scaledTempl}
                /\ UNCHANGED <<bestForTemplate, tried, attempts, sIdx>>
             \/ /\ ScanCatch(c, "matchTemplate")
                /\ liveMats' = liveMats \cup {scaledTempl, result}
                /\ UNCHANGED <<bestForTemplate, tried, attempts, sIdx>>
             \/ /\ \E minMax \in MinMaxResults :
                     /\ minMax.maxLoc[1] + scaledWidth <= frame.width
                     /\ minMax.maxLoc[2] + scaledHeight <= frame.height
                     /\ bestForTemplate' = [bestForTemplate EXCEPT ![c] =
                          UpdateBest(@, minMax, scaledWidth, scaledHeight, scale)]
                     /\ tried' = [tried EXCEPT ![c] = @ \cup {minMax.maxVal}]
                /\ attempts' = [attempts EXCEPT ![c] = @ + 1]
                /\ NextScale(c)
                /\ UNCHANGED <<liveMats, isScanning, running, ret, outcome, error>>
  /\ UNCHANGED <<cvLoaded, templatesCache, env, calls, loadCompleted, scanLoads, kind, initing,
                 loadLocals, screenData, screenGray, matches, tIdx, captures, dedupVars,
                 versionVars, uiVars>>

\* if (bestForTemplate.val >= this.confidenceThreshold)
AcceptsAbove(val) == val > confidenceThreshold
Accepts(val) == val >= confidenceThreshold

\* the object pushed onto matches
DetectionUnscaled(itemId, best) ==
  [itemId |-> itemId, x |-> best.x, y |-> best.y, width |-> TemplateSize,
   height |-> TemplateSize, confidence |-> best.val]
Detection(itemId, best) ==
  [itemId |-> itemId, x |-> best.x, y |-> best.y, width |-> best.width,
   height |-> best.height, confidence |-> best.val]

\* for (const [itemId, template] of this.templatesCache): the loop ends
\* after the last entry
TemplatesDoneEarly(c) == TRUE
TemplatesDone(c) == tIdx[c] = Len(templatesCache)

\* after the scale loop: the threshold test, then the next template
EmitTemplate(c) ==
  /\ running = c
  /\ pc[c] = "emit"
  /\ matches' = [matches EXCEPT ![c] =
       IF Accepts(bestForTemplate[c].val)
       THEN Append(@, Detection(templatesCache[tIdx[c]].name, bestForTemplate[c]))
       ELSE @]
  /\ bestForTemplate' = [bestForTemplate EXCEPT ![c] = NoBest]
  /\ tried' = [tried EXCEPT ![c] = {}]
  /\ attempts' = [attempts EXCEPT ![c] = 0]
  /\ IF TemplatesDone(c)
     THEN /\ pc' = [pc EXCEPT ![c] = "dedupe"]
          /\ UNCHANGED <<tIdx, sIdx>>
     ELSE /\ pc' = [pc EXCEPT ![c] = "match"]
          /\ tIdx' = [tIdx EXCEPT ![c] = @ + 1]
          /\ sIdx' = [sIdx EXCEPT ![c] = 1]
  /\ UNCHANGED <<isScanning, cvLoaded, templatesCache, liveMats, env, running, calls,
                 loadCompleted, scanLoads, kind, initing, loadLocals, screenData, screenGray,
                 captures, ret, outcome, error, dedupVars, versionVars, uiVars>>

\* after the template loop: the frame Mat is deleted, matches is sorted in
\* place and deduplicated, the result is returned and the finally block runs
ScanFinish(c) ==
  /\ running = c
  /\ pc[c] = "dedupe"
  /\ liveMats' = liveMats \ {screenGray[c]}
  /\ screenGray' = [screenGray EXCEPT ![c] = NoMat]
  /\ matches' = [matches EXCEPT ![c] = SortMatches(@)]
  /\ ret' = [ret EXCEPT ![c] = Resolved(removeDuplicates(matches[c]))]
  /\ outcome' = [outcome EXCEPT ![c] = "complete"]
  /\ pc' = [pc EXCEPT ![c] = "done"]
  /\ running' = c
  /\ ScanFinally
  /\ UNCHANGED <<cvLoaded, templatesCache, env, calls, loadCompleted, scanLoads, kind, initing,
                 loadLocals, screenData, tIdx, sIdx, bestForTemplate, tried, attempts,
                 captures, error, dedupVars, versionVars, uiVars>>

\* the continuation of the caller runs with the settled promise, as a
\* microtask ahead of every pending I/O callback; the locals of the call
\* are gone
Return(c) ==
  /\ running = c
  /\ pc[c] = "done"
  /\ running' = 0
  /\ pc' = [pc EXCEPT ![c] = "idle"]
  /\ kind' = [kind EXCEPT ![c] = "none"]
  /\ initing' = [initing EXCEPT ![c] = FALSE]
  /\ fileIdx' = [fileIdx EXCEPT ![c] = 0]
  /\ cacheAtCall' = [cacheAtCall EXCEPT ![c] = <<>>]
  /\ loadedBefore' = [loadedBefore EXCEPT ![c] = FALSE]
  /\ loadErrors' = [loadErrors EXCEPT ![c] = <<>>]
  /\ screenData' = [screenData EXCEPT ![c] = NoFrame]
  /\ screenGray' = [screenGray EXCEPT ![c] = NoMat]
  /\ matches' = [matches EXCEPT ![c] = <<>>]
  /\ tIdx' = [tIdx EXCEPT ![c] = 0]
  /\ sIdx' = [sIdx EXCEPT ![c] = 0]
  /\ bestForTemplate' = [bestForTemplate EXCEPT ![c] = NoBest]
  /\ tried' = [tried EXCEPT ![c] = {}]
  /\ attempts' = [attempts EXCEPT ![c] = 0]
  /\ captures' = [captures EXCEPT ![c] = 0]
  /\ ret' = [ret EXCEPT ![c] = Pending]
  /\ outcome' = [outcome EXCEPT ![c] = "none"]
  /\ error' = [error EXCEPT ![c] = "none"]
  /\ UNCHANGED <<isScanning, cvLoaded, templatesCache, liveMats, env, calls,
                 loadCompleted, scanLoads, dedupVars, versionVars, uiVars>>

\* the callers call scanScreen only; loadTemplates runs as part of a scan
Next ==
  \E c \in Callers :
    \/ ScanRequest(c)
    \/ ScanCVDone(c)
    \/ LoadCVDone(c)
    \/ LoadDirDone(c)
    \/ LoadFileDone(c)
    \/ CapSourcesDone(c)
    \/ CapImageDone(c)
    \/ ScanPrepare(c)
    \/ MatchScale(c)
    \/ EmitTemplate(c)
    \/ ScanFinish(c)
    \/ Return(c)

Spec == Init /\ [][Next]_vars

\* the callers also call loadTemplates directly (an explicit preload)
LoadNext ==
  \/ Next
  \/ \E c \in Callers : LoadRequest(c)

SpecLoad == Init /\ [][LoadNext]_vars

\* the callers call loadTemplates only
PreloadNext ==
  \E c \in Callers :
    \/ LoadRequest(c)
    \/ LoadCVDone(c)
    \/ LoadDirDone(c)
    \/ LoadFileDone(c)
    \/ Return(c)

SpecPreload == Init /\ [][PreloadNext]_vars

TypeOK ==
  /\ isScanning \in BOOLEAN
  /\ cvLoaded \in BOOLEAN
  /\ running \in Callers \cup {0}
  /\ calls \in 0..MaxCalls
  /\ \A c \in Callers :
       /\ kind[c] \in {"none", "scan", "load"}
       /\ pc[c] \in {"idle", "scan_cv", "load_cv", "load_dir", "load_file", "cap_src",
                     "cap_img", "prepare", "match", "emit", "dedupe", "done"}
       /\ ret[c].kind \in {"pending", "resolved", "rejected"}


\* ---------------------------------------- removeDuplicates called directly
\* the detections the lists are drawn from: corners that put centres
\* 6.5, 13, 19.5 and exactly 20 px apart, two template sizes, two confidences
DedupShapes == [x : {0, 13, 20}, y : {0, 20}, size : {51, 64}, confidence : {80, 90}]

\* a scan pushes at most one detection per template: item ids are distinct
DedupList(shapes) ==
  [i \in 1..Len(shapes) |->
     [itemId |-> i, x |-> shapes[i].x, y |-> shapes[i].y, width |-> shapes[i].size,
      height |-> shapes[i].size, confidence |-> shapes[i].confidence]]

DedupInit ==
  /\ ScanInit
  /\ catalog = <<>>
  /\ dirOk = TRUE
  /\ \E n \in 0..MaxDets : \E shapes \in [1..n -> DedupShapes] :
       /\ dedupIn = DedupList(shapes)
       /\ dedupArr = DedupList(shapes)
  /\ dedupOut = <<>>
  /\ dedupDone = FALSE
  /\ VersionIdle
  /\ UiIdle

\* removeDuplicates(matches): sorts the argument in place and returns unique
DedupApply ==
  /\ ~dedupDone
  /\ dedupArr' = SortMatches(dedupArr)
  /\ dedupOut' = removeDuplicates(dedupArr)
  /\ dedupDone' = TRUE
  /\ UNCHANGED dedupIn
  /\ UNCHANGED <<scanVars, versionVars, uiVars>>

DedupNext == DedupApply

SpecDedup == DedupInit /\ [][DedupNext]_vars


\* ------------------------------------- isNewerVersion (services/autoUpdate)
\* A version string is a sequence of characters.  NaN stands for the NaN
\* that Number gives for a non-numeric part and for the undefined of a
\* missing part: both make every > and < false.
NaN == -1

Digits == <<"0", "1", "2", "3", "4", "5", "6", "7", "8", "9">>
DigitValue(ch) == (CHOOSE d \in 1..10 : Digits[d] = ch) - 1
IsDigit(ch) == \E d \in 1..10 : Digits[d] = ch

\* the texts a part of a version string is drawn from: 0, 9, 10 and a
\* non-numeric one
PartTexts == {<<"0">>, <<"9">>, <<"1", "0">>, <<"x">>}

\* parts joined by dots
RECURSIVE JoinParts(_)
JoinParts(parts) ==
  IF Len(parts) = 1 THEN parts[1]
  ELSE JoinParts(SubSeq(parts, 1, Len(parts) - 1)) \o <<".">> \o parts[Len(parts)]

VersionStrings ==
  UNION {{JoinParts(parts) : parts \in [1..n -> PartTexts]} : n \in 1..MaxParts}

\* String.prototype.split('.')
RECURSIVE SplitDots(_)
SplitDots(str) ==
  IF Len(str) = 0 THEN <<(<<>>)>>
  ELSE LET init == SplitDots(SubSeq(str, 1, Len(str) - 1))
           last == str[Len(str)]
       IN IF last = "." THEN Append(init, <<>>)
          ELSE [init EXCEPT ![Len(init)] = Append(@, last)]

\* Number(text) for a text without sign, blank or exponent: 0 for the empty
\* text, the decimal value of a digit text, NaN otherwise
RECURSIVE DecimalValue(_)
DecimalValue(text) ==
  IF Len(text) = 0 THEN 0
  ELSE 10 * DecimalValue(SubSeq(text, 1, Len(text) - 1)) + DigitValue(text[Len(text)])

Number(text) ==
  IF \A i \in 1..Len(text) : IsDigit(text[i]) THEN DecimalValue(text) ELSE NaN

\* version.split('.').map(Number)
VersionPartsOf(str) ==
  LET texts == SplitDots(str) IN [i \in 1..Len(texts) |-> Number(texts[i])]

\* parts[i] of a JavaScript array: undefined past the end
PartAt(parts, i) == IF i <= Len(parts) THEN parts[i] ELSE NaN

\* a > b on numbers: false when either side is NaN or undefined
JsGreater(a, b) == a # NaN /\ b # NaN /\ a > b

\* if (latestParts[i] > currentParts[i]) return true;
PartNewer(currentParts, latestParts, i) ==
  JsGreater(PartAt(latestParts, i), PartAt(currentParts, i))

\* if (latestParts[i] < currentParts[i]) return false;
PartOlderIgnored(currentParts, latestParts, i) == FALSE
PartOlder(currentParts, latestParts, i) ==
  JsGreater(PartAt(currentParts, i), PartAt(latestParts, i))

\* for (let i = 0; i < 3; i++) { ... } return false;
RECURSIVE CompareFrom(_, _, _)
CompareFrom(currentParts, latestParts, i) ==
  IF i > VersionLoopParts THEN FALSE
  ELSE IF PartNewer(currentParts, latestParts, i) THEN TRUE
  ELSE IF PartOlder(currentParts, latestParts, i) THEN FALSE
  ELSE CompareFrom(currentParts, latestParts, i + 1)

isNewerVersion(current, latest) ==
  CompareFrom(VersionPartsOf(current), VersionPartsOf(latest), 1)

VersionInit ==
  /\ ScanInit
  /\ DedupIdle
  /\ UiIdle
  /\ catalog = <<>>
  /\ dirOk = TRUE
  /\ verCurrent \in VersionStrings
  /\ verLatest \in VersionStrings
  /\ verResult = FALSE
  /\ verReverse = FALSE
  /\ verDone = FALSE

\* isNewerVersion is called on the pair, in both orders
VersionApply ==
  /\ ~verDone
  /\ verResult' = isNewerVersion(verCurrent, verLatest)
  /\ verReverse' = isNewerVersion(verLatest, verCurrent)
  /\ verDone' = TRUE
  /\ UNCHANGED <<verCurrent, verLatest, scanVars, dedupVars, uiVars>>

VersionNext == VersionApply

SpecVersion == VersionInit /\ [][VersionNext]_vars


\* ------------------------------------------------ electron/overlayWindow.js
\* cursorPos.x/y <= windowBounds.x/y + 60; the window is created at (0, 0)
\* and is not movable
ToggleZoneSize == 60
\* item.abs_width ?? item.width ?? 64
DefaultBoxSize == 64

\* screen.getCursorScreenPoint(): in the toggle zone, over items, elsewhere
CursorPoints == {<<30, 30>>, <<320, 220>>, <<130, 520>>, <<900, 900>>}

\* items of a scan result, in the formats setItemBoxes accepts
ItemA == [box |-> <<300, 200, 60, 60>>]
ItemB == [abs_x |-> 100, abs_y |-> 500]
ItemC == [x |-> 20, y |-> 20, width |-> 50, height |-> 50]
ItemLists == {<<>>, <<ItemA>>, <<ItemA, ItemB>>, <<ItemC, ItemA>>}

\* a ?? b ?? d on the fields of an item
Coalesce(item, first, second, default) ==
  IF first \in DOMAIN item THEN item[first]
  ELSE IF second \in DOMAIN item THEN item[second]
  ELSE default

\* the callback of (items || []).map; index counts from 0
BoxOf(item, index) ==
  IF "box" \in DOMAIN item
  THEN [x |-> item.box[1], y |-> item.box[2],
        width |-> item.box[3], height |-> item.box[4], index |-> index]
  ELSE [x |-> Coalesce(item, "abs_x", "x", 0),
        y |-> Coalesce(item, "abs_y", "y", 0),
        width |-> Coalesce(item, "abs_width", "width", DefaultBoxSize),
        height |-> Coalesce(item, "abs_height", "height", DefaultBoxSize),
        index |-> index]

isInToggleZone(cursorPos) ==
  /\ cursorPos[1] >= 0 /\ cursorPos[1] <= 0 + ToggleZoneSize
  /\ cursorPos[2] >= 0 /\ cursorPos[2] <= 0 + ToggleZoneSize

InBox(cursorPos, box) ==
  /\ cursorPos[1] >= box.x /\ cursorPos[1] <= box.x + box.width
  /\ cursorPos[2] >= box.y /\ cursorPos[2] <= box.y + box.height

\* the index of the first box under the cursor, or -1
HoveredIndex(cursorPos, boxes) ==
  LET hits == {i \in 1..Len(boxes) : InBox(cursorPos, boxes[i])}
  IN IF hits = {} THEN -1
     ELSE boxes[CHOOSE i \in hits : \A j \in hits : i <= j].index

\* createOverlayWindow(); an existing window is returned as it is
createOverlayWindow ==
  /\ overlayWindow = "null"
  /\ overlayWindow' = "hidden"
  /\ ignoreMouseEvents' = TRUE
  /\ UNCHANGED <<mouseTrackingInterval, isCurrentlyInteractive,
                 manualInteractiveMode, itemBoxes, currentHoveredIndex,
                 hoverSent, lastTick>>

\* destroyOverlayWindow(), and the window's 'closed' event
destroyOverlayWindow ==
  /\ overlayWindow # "null"
  /\ overlayWindow' = "null"
  /\ ignoreMouseEvents' = TRUE
  /\ UNCHANGED <<mouseTrackingInterval, isCurrentlyInteractive,
                 manualInteractiveMode, itemBoxes, currentHoveredIndex,
                 hoverSent, lastTick>>

\* overlayWin.show() and overlayWin.hide() of the gear-scan handlers
ShowOverlay ==
  /\ overlayWindow = "hidden"
  /\ overlayWindow' = "visible"
  /\ UNCHANGED <<ignoreMouseEvents, mouseTrackingInterval, isCurrentlyInteractive,
                 manualInteractiveMode, itemBoxes, currentHoveredIndex,
                 hoverSent, lastTick>>

HideOverlay ==
  /\ overlayWindow = "visible"
  /\ overlayWindow' = "hidden"
  /\ UNCHANGED <<ignoreMouseEvents, mouseTrackingInterval, isCurrentlyInteractive,
                 manualInteractiveMode, itemBoxes, currentHoveredIndex,
                 hoverSent, lastTick>>

\* setOverlayInteractive(interactive): what it assigns
setOverlayInteractive(interactive) ==
  /\ manualInteractiveMode' = interactive
  /\ IF overlayWindow # "null"
     THEN /\ ignoreMouseEvents' = ~interactive
          /\ isCurrentlyInteractive' = interactive
     ELSE UNCHANGED <<ignoreMouseEvents, isCurrentlyInteractive>>

\* setItemBoxes(items): what it assigns
setItemBoxes(items) ==
  /\ itemBoxes' = [i \in 1..Len(items) |-> BoxOf(items[i], i - 1)]
  /\ currentHoveredIndex' = -1

\* clearItemBoxes(): what it assigns
clearItemBoxes ==
  /\ itemBoxes' = <<>>
  /\ currentHoveredIndex' = -1

\* startMouseTracking(): sets the interval unless it is set
startMouseTracking == mouseTrackingInterval' = TRUE

\* stopMouseTracking()
stopMouseTracking == mouseTrackingInterval' = FALSE

\* the overlay:set-interactive IPC handler
CallSetOverlayInteractive ==
  /\ \E interactive \in BOOLEAN : setOverlayInteractive(interactive)
  /\ UNCHANGED <<overlayWindow, mouseTrackingInterval, itemBoxes,
                 currentHoveredIndex, hoverSent, lastTick>>

CallSetItemBoxes ==
  /\ \E items \in ItemLists : setItemBoxes(items)
  /\ UNCHANGED <<overlayWindow, ignoreMouseEvents, mouseTrackingInterval,
                 isCurrentlyInteractive, manualInteractiveMode, hoverSent, lastTick>>

CallClearItemBoxes ==
  /\ itemBoxes # <<>> \/ currentHoveredIndex # -1
  /\ clearItemBoxes
  /\ UNCHANGED <<overlayWindow, ignoreMouseEvents, mouseTrackingInterval,
                 isCurrentlyInteractive, manualInteractiveMode, hoverSent, lastTick>>

CallStartMouseTracking ==
  /\ ~mouseTrackingInterval
  /\ startMouseTracking
  /\ UNCHANGED <<overlayWindow, ignoreMouseEvents, isCurrentlyInteractive,
                 manualInteractiveMode, itemBoxes, currentHoveredIndex,
                 hoverSent, lastTick>>

CallStopMouseTracking ==
  /\ mouseTrackingInterval
  /\ stopMouseTracking
  /\ UNCHANGED <<overlayWindow, ignoreMouseEvents, isCurrentlyInteractive,
                 manualInteractiveMode, itemBoxes, currentHoveredIndex,
                 hoverSent, lastTick>>

\* if (!manualInteractiveMode): the tracker leaves a manual mode alone
ZoneToggleAlways == TRUE
ZoneToggleAllowed == ~manualInteractiveMode

\* if (hoveredIndex !== currentHoveredIndex)
HoverChanged(hoveredIndex) == hoveredIndex # currentHoveredIndex

\* the last two events sent on the 'item-hover' channel, after one more
SendItemHover(sent, hoveredIndex) ==
  IF Len(sent) < 2 THEN Append(sent, hoveredIndex) ELSE <<sent[2], hoveredIndex>>

\* one run of the setInterval callback of startMouseTracking; it returns at
\* once, changing nothing, unless the window exists and is visible
MouseTick(cursorPos) ==
  /\ mouseTrackingInterval
  /\ overlayWindow = "visible"
  /\ lastTick' = <<cursorPos, manualInteractiveMode>>
  /\ IF ZoneToggleAllowed /\ isInToggleZone(cursorPos) /\ ~isCurrentlyInteractive
     THEN /\ ignoreMouseEvents' = FALSE
          /\ isCurrentlyInteractive' = TRUE
     ELSE IF /\ ZoneToggleAllowed
             /\ ~isInToggleZone(cursorPos)
             /\ isCurrentlyInteractive
             /\ ~manualInteractiveMode
     THEN /\ ignoreMouseEvents' = TRUE
          /\ isCurrentlyInteractive' = FALSE
     ELSE UNCHANGED <<ignoreMouseEvents, isCurrentlyInteractive>>
  /\ LET hoveredIndex == HoveredIndex(cursorPos, itemBoxes)
     IN IF HoverChanged(hoveredIndex)
        THEN /\ currentHoveredIndex' = hoveredIndex
             /\ hoverSent' = SendItemHover(hoverSent, hoveredIndex)
        ELSE UNCHANGED <<currentHoveredIndex, hoverSent>>
  /\ UNCHANGED <<overlayWindow, mouseTrackingInterval, manualInteractiveMode,
                 itemBoxes>>

OverlayCalls ==
  \/ createOverlayWindow
  \/ destroyOverlayWindow
  \/ ShowOverlay
  \/ HideOverlay
  \/ CallSetOverlayInteractive
  \/ CallSetItemBoxes
  \/ CallClearItemBoxes
  \/ CallStartMouseTracking
  \/ CallStopMouseTracking
  \/ \E cursorPos \in CursorPoints : MouseTick(cursorPos)

OverlayInit ==
  /\ ScanInit
  /\ DedupIdle
  /\ VersionIdle
  /\ UiIdle
  /\ catalog = <<>>
  /\ dirOk = TRUE

OverlayNext ==
  /\ OverlayCalls
  /\ UNCHANGED <<scanVars, dedupVars, versionVars, waitVars, keybindVars, gearVars>>

SpecOverlay == OverlayInit /\ [][OverlayNext]_vars


\* ------------------------------------------------- waitForService (part_006)
\* waitForService(maxRetries = 600)
DefaultMaxRetries == 600
RetryLimits == {1, 5, 10, DefaultMaxRetries}
\* a progress update every 4th iteration
ProgressEvery == 4
ProgressCap == 90

\* what fetch(SCANNER_URL) gives: a response that is ok, one that is not,
\* or a rejection
FetchResponses == {"ok", "not_ok", "error"}

\* the (i, maxRetries) of RetryLimits for which the double (i / maxRetries) * 90
\* lies just below the integer i * 90 / maxRetries, so that Math.floor gives
\* one less
RoundsBelow == {<<7, 10>>, <<420, DefaultMaxRetries>>}

\* Math.min(90, Math.floor((i / maxRetries) * 90))
Progress(i, maxRetries) ==
  LET floor == IF <<i, maxRetries>> \in RoundsBelow
               THEN ((i * ProgressCap) \div maxRetries) - 1
               ELSE (i * ProgressCap) \div maxRetries
  IN IF floor < ProgressCap THEN floor ELSE ProgressCap

\* loadingState = ...; if (mainWindow && !mainWindow.isDestroyed()) send
Publish(state) ==
  /\ loadingState' = state
  /\ loadingSent' = IF mainWindowOpen THEN <<state>> ELSE loadingSent

\* if (response.ok)
ServiceAnsweredAlways(response) == TRUE
ServiceAnswered(response) == response = "ok"

\* the call, up to the first fetch
WaitForService(maxRetries) ==
  /\ wsPc = "idle"
  /\ wsMaxRetries' = maxRetries
  /\ Publish([isLoading |-> TRUE, progress |-> 0])
  /\ wsI' = 0
  /\ wsPc' = "fetch"
  /\ UNCHANGED <<mainWindowOpen, wsUnanswered, wsResponse>>

\* the fetch settles: return true, or publish the progress and sleep
WaitFetchDone(response) ==
  /\ wsPc = "fetch"
  /\ wsResponse' = response
  /\ IF ServiceAnswered(response)
     THEN /\ Publish([isLoading |-> FALSE, progress |-> 100])
          /\ wsPc' = "ready"
          /\ UNCHANGED wsUnanswered
     ELSE /\ wsUnanswered' = wsUnanswered + 1
          /\ IF wsI % ProgressEvery = 0
             THEN Publish([isLoading |-> TRUE, progress |-> Progress(wsI, wsMaxRetries)])
             ELSE UNCHANGED <<loadingState, loadingSent>>
          /\ wsPc' = "sleep"
  /\ UNCHANGED <<mainWindowOpen, wsMaxRetries, wsI>>

\* the 500 ms timer fires: the next iteration, or the throw after the loop
WaitSleepDone ==
  /\ wsPc = "sleep"
  /\ wsI' = wsI + 1
  /\ wsPc' = IF wsI + 1 < wsMaxRetries THEN "fetch" ELSE "failed"
  /\ UNCHANGED <<loadingState, loadingSent, mainWindowOpen, wsMaxRetries,
                 wsUnanswered, wsResponse>>

\* mainWindow.on('closed')
MainWindowClosed ==
  /\ mainWindowOpen
  /\ mainWindowOpen' = FALSE
  /\ UNCHANGED <<loadingState, loadingSent, wsPc, wsMaxRetries, wsI, wsUnanswered,
                 wsResponse>>

WaitInit ==
  /\ ScanInit
  /\ DedupIdle
  /\ VersionIdle
  /\ UiIdle
  /\ catalog = <<>>
  /\ dirOk = TRUE

WaitNext ==
  /\ \/ \E maxRetries \in RetryLimits : WaitForService(maxRetries)
     \/ \E response \in FetchResponses : WaitFetchDone(response)
     \/ WaitSleepDone
     \/ MainWindowClosed
  /\ UNCHANGED <<scanVars, dedupVars, versionVars, overlayVars, keybindVars, gearVars>>

SpecWait == WaitInit /\ [][WaitNext]_vars


\* ----------------------------------- KeybindSettings (services/autoUpdate)
Actions == {"gearScan", "ocrScan"}
OtherAction(action) == IF action = "gearScan" THEN "ocrScan" ELSE "gearScan"

\* keydown events: key, code and the modifier flags
KeyEvent(key, code, ctrl, shift, alt) ==
  [key |-> key, code |-> code, ctrlKey |-> ctrl, shiftKey |-> shift, altKey |-> alt]
KeyEvents ==
  { KeyEvent("F3", "F3", FALSE, FALSE, FALSE),
    KeyEvent("F4", "F4", FALSE, FALSE, FALSE),
    KeyEvent("a", "KeyA", FALSE, FALSE, FALSE),
    KeyEvent("A", "KeyA", FALSE, TRUE, FALSE),
    KeyEvent(" ", "Space", FALSE, FALSE, FALSE),
    KeyEvent("Control", "ControlLeft", TRUE, FALSE, FALSE),
    KeyEvent("Escape", "Escape", FALSE, FALSE, FALSE) }

\* key.length === 1 and key.toUpperCase(), on the keys of KeyEvents
SingleChars == {"a", "A", " "}
ToUpperCase(key) == IF key = "a" THEN "A" ELSE key

\* e.code.startsWith('F') && e.code.length <= 3, on the codes of KeyEvents
IsFunctionCode(code) == code \in {"F3", "F4"}

\* let key = e.key, normalised
NormalKey(e) ==
  LET spaced == IF e.key = " " THEN "Space" ELSE e.key
      upper == IF spaced \in SingleChars THEN ToUpperCase(spaced) ELSE spaced
  IN IF IsFunctionCode(e.code) THEN e.code ELSE upper

\* ['Control', 'Shift', 'Alt', 'Meta'].includes(key)
IsModifier(key) == key \in {"Control", "Shift", "Alt", "Meta"}

\* const finalKey = combo + key
FinalKey(e) == Binding(e.ctrlKey, e.shiftKey, e.altKey, NormalKey(e))

\* Object.entries(keybinds).find(([action, k]) => action !== listening && k === finalKey)
UsedByOther(finalKey) ==
  \E action \in Actions : action # listening /\ keybinds[action] = finalKey

\* setKeybinds, saveKeybinds and window.electron.updateKeybinds of one value
StoreKeybinds(newKeybinds) ==
  /\ keybinds' = newKeybinds
  /\ savedKeybinds' = newKeybinds
  /\ sentKeybinds' = newKeybinds
  /\ updateSeq' = 1 - updateSeq

\* the dialog is shown; the X button, the backdrop or Escape close it
OpenDialog ==
  /\ ~dialogOpen
  /\ dialogOpen' = TRUE
  /\ UNCHANGED <<keybinds, listening, keybindError, savedKeybinds, sentKeybinds,
                 updateSeq>>

CloseDialog ==
  /\ dialogOpen
  /\ dialogOpen' = FALSE
  /\ UNCHANGED <<keybinds, listening, keybindError, savedKeybinds, sentKeybinds,
                 updateSeq>>

\* onStartListening of a row
StartListening(action) ==
  /\ dialogOpen
  /\ listening' = action
  /\ keybindError' = "null"
  /\ UNCHANGED <<keybinds, savedKeybinds, sentKeybinds, updateSeq, dialogOpen>>

\* onClear of a row; the button is rendered when currentKey && !isListening
ClearKeybind(action) ==
  /\ dialogOpen
  /\ keybinds[action] # NoKey
  /\ listening # action
  /\ StoreKeybinds([keybinds EXCEPT ![action] = NoKey])
  /\ UNCHANGED <<listening, keybindError, dialogOpen>>

\* resetToDefaults
resetToDefaults ==
  /\ dialogOpen
  /\ StoreKeybinds(DEFAULT_KEYBINDS)
  /\ keybindError' = "null"
  /\ UNCHANGED <<listening, dialogOpen>>

\* one keydown event on window.  While listening, handleKeyDown runs: it
\* was added first; then, while the dialog is open, handleEscape runs, with
\* the listening of the same render.
KeyDown(e) ==
  LET finalKey == FinalKey(e)
      rebinds == listening # "null" /\ ~IsModifier(NormalKey(e)) /\ ~UsedByOther(finalKey)
      rejects == listening # "null" /\ ~IsModifier(NormalKey(e)) /\ UsedByOther(finalKey)
      escapes == dialogOpen /\ e.key = "Escape"
  IN /\ listening # "null" \/ escapes
     /\ IF rebinds
        THEN StoreKeybinds([keybinds EXCEPT ![listening] = finalKey])
        ELSE UNCHANGED <<keybinds, savedKeybinds, sentKeybinds, updateSeq>>
     /\ listening' = IF rebinds \/ escapes THEN "null" ELSE listening
     /\ keybindError' = IF rebinds \/ (escapes /\ listening # "null") THEN "null"
                        ELSE IF rejects THEN OtherAction(listening)
                        ELSE keybindError
     /\ dialogOpen' = IF escapes /\ listening = "null" THEN FALSE ELSE dialogOpen

KeybindInit ==
  /\ ScanInit
  /\ DedupIdle
  /\ VersionIdle
  /\ UiIdle
  /\ catalog = <<>>
  /\ dirOk = TRUE

KeybindNext ==
  /\ \/ OpenDialog
     \/ CloseDialog
     \/ \E action \in Actions : StartListening(action)
     \/ \E action \in Actions : ClearKeybind(action)
     \/ resetToDefaults
     \/ \E e \in KeyEvents : KeyDown(e)
  /\ UNCHANGED <<scanVars, dedupVars, versionVars, overlayVars, waitVars, gearVars>>

SpecKeybind == KeybindInit /\ [][KeybindNext]_vars

\* ------------------------------- gear scan and scroll re-scan (part_006)
\* what fetch('/scan-gear') and response.json() give: success with items,
\* success without items, success false, or a rejection
ScanReplies == {"items", "empty", "failure", "unreachable"}
ReplyItems == {<<ItemA>>, <<ItemA, ItemB>>}

\* result.success
ReplySuccess(reply) == reply \in {"items", "empty"}

\* the overlay's handleScanStart (Overlay.jsx:79-84)
handleScanStart ==
  /\ overlayIsScanning' = TRUE
  /\ UNCHANGED <<overlayIsVisible, overlayShowItems>>

\* the overlay's handleScanResult (Overlay.jsx:86-99)
handleScanResult(success) ==
  /\ overlayIsScanning' = FALSE
  /\ overlayIsVisible' = success
  /\ overlayShowItems' = TRUE

\* the overlay's handleScrollHide (Overlay.jsx:102-105)
handleScrollHide ==
  /\ overlayShowItems' = FALSE
  /\ UNCHANGED <<overlayIsScanning, overlayIsVisible>>

\* doGearScan after its awaits, for a successful reply: setItemBoxes for a
\* non-empty item list, then gear-scan-result to the overlay
GearResult(reply, items) ==
  /\ IF reply = "items"
     THEN setItemBoxes(items)
     ELSE UNCHANGED <<itemBoxes, currentHoveredIndex>>
  /\ handleScanResult(TRUE)

\* if (rescanTimeout) { clearTimeout(rescanTimeout); rescanTimeout = null }
ClearedTimeout == "null"

\* if (success): whether the reply is reported to the overlay
ReportsAlways(reply) == TRUE
Reports(reply) == ReplySuccess(reply)

\* gearScanHandler up to the await of doGearScan's fetch; without an
\* overlay window it does nothing
GearHotkey ==
  /\ overlayWindow # "null"
  /\ gearScans + gearListens < MaxInFlight
  /\ overlayWindow' = "visible"
  /\ handleScanStart
  /\ gearScans' = gearScans + 1
  /\ gearPhase' = "active"
  /\ rescanResultSent' = FALSE
  /\ UNCHANGED <<ignoreMouseEvents, mouseTrackingInterval, isCurrentlyInteractive,
                 manualInteractiveMode, itemBoxes, currentHoveredIndex, hoverSent,
                 lastTick>>
  /\ UNCHANGED <<gearListens, tabRegistered, tabStops, scrollListener, scrollChecks,
                 rescanTimeout, rescans>>

\* doGearScan(overlayWin, false) settles and gearScanHandler goes on: on
\* success to startMouseTracking() and the await in startScrollListener
GearScanDone(reply, items) ==
  /\ gearScans > 0
  /\ gearScans' = gearScans - 1
  /\ IF Reports(reply)
     THEN /\ GearResult(reply, items)
          /\ startMouseTracking
          /\ gearListens' = gearListens + 1
     ELSE UNCHANGED <<itemBoxes, currentHoveredIndex, overlayIsScanning,
                      overlayIsVisible, overlayShowItems, mouseTrackingInterval,
                      gearListens>>
  /\ UNCHANGED <<overlayWindow, ignoreMouseEvents, isCurrentlyInteractive,
                 manualInteractiveMode, hoverSent, lastTick>>
  /\ UNCHANGED <<tabRegistered, tabStops, scrollListener, scrollChecks,
                 rescanTimeout, rescans, gearPhase, rescanResultSent>>

\* startScrollListener settles (its catch absorbs a rejection), then
\* startScrollPolling and globalShortcut.register('Tab', ...)
GearListenDone ==
  /\ gearListens > 0
  /\ gearListens' = gearListens - 1
  /\ scrollListener' = TRUE
  /\ tabRegistered' = TRUE
  /\ UNCHANGED overlayVars
  /\ UNCHANGED <<overlayIsScanning, overlayIsVisible, overlayShowItems, gearScans,
                 tabStops, scrollChecks, rescanTimeout, rescans, gearPhase,
                 rescanResultSent>>

\* the Tab handler up to the await in stopScrollListener: hide, the close
\* signal, stopMouseTracking(), stopScrollPolling()
TabPressed ==
  /\ tabRegistered
  /\ tabStops < MaxInFlight
  /\ overlayWindow' = "hidden"
  /\ handleScanResult(FALSE)
  /\ stopMouseTracking
  /\ scrollListener' = FALSE
  /\ rescanTimeout' = ClearedTimeout
  /\ tabStops' = tabStops + 1
  /\ gearPhase' = "hidden"
  /\ rescanResultSent' = FALSE
  /\ UNCHANGED <<ignoreMouseEvents, isCurrentlyInteractive, manualInteractiveMode,
                 itemBoxes, currentHoveredIndex, hoverSent, lastTick>>
  /\ UNCHANGED <<gearScans, gearListens, tabRegistered, scrollChecks, rescans>>

\* stopScrollListener settles: a fetch that resolved clears the re-scan
\* timer, one that threw does not; then setOverlayInteractive(false),
\* clearItemBoxes() and globalShortcut.unregister('Tab')
TabStopDone(fetched) ==
  /\ tabStops > 0
  /\ tabStops' = tabStops - 1
  /\ rescanTimeout' = IF fetched THEN ClearedTimeout ELSE rescanTimeout
  /\ setOverlayInteractive(FALSE)
  /\ clearItemBoxes
  /\ tabRegistered' = FALSE
  /\ gearPhase' = IF gearPhase = "hidden" THEN "closed" ELSE gearPhase
  /\ UNCHANGED <<overlayWindow, mouseTrackingInterval, hoverSent, lastTick>>
  /\ UNCHANGED <<overlayIsScanning, overlayIsVisible, overlayShowItems, gearScans,
                 gearListens, scrollListener, scrollChecks, rescans,
                 rescanResultSent>>

\* the 50 ms interval of startScrollPolling fires: with the overlay
\* visible it awaits fetch('/scroll/check')
ScrollPollTick ==
  /\ scrollListener
  /\ overlayWindow = "visible"
  /\ scrollChecks < MaxInFlight
  /\ scrollChecks' = scrollChecks + 1
  /\ UNCHANGED overlayVars
  /\ UNCHANGED <<overlayIsScanning, overlayIsVisible, overlayShowItems, gearScans,
                 gearListens, tabRegistered, tabStops, scrollListener,
                 rescanTimeout, rescans, gearPhase, rescanResultSent>>

\* the scroll check settles: on scroll_detected it sends scroll-hide and
\* sets the 500 ms re-scan timer anew; a rejection is absorbed
ScrollCheckDone(detected) ==
  /\ scrollChecks > 0
  /\ scrollChecks' = scrollChecks - 1
  /\ IF detected
     THEN /\ handleScrollHide
          /\ rescanTimeout' = "armed"
     ELSE UNCHANGED <<overlayIsScanning, overlayIsVisible, overlayShowItems,
                      rescanTimeout>>
  /\ UNCHANGED overlayVars
  /\ UNCHANGED <<gearScans, gearListens, tabRegistered, tabStops, scrollListener,
                 rescans, gearPhase, rescanResultSent>>

\* the re-scan timer fires: doGearScan(overlayWin, true) up to its fetch;
\* rescanTimeout keeps the handle of the timer that has fired
RescanTimerFires ==
  /\ rescanTimeout = "armed"
  /\ rescans < MaxInFlight
  /\ rescanTimeout' = "fired"
  /\ rescans' = rescans + 1
  /\ UNCHANGED overlayVars
  /\ UNCHANGED <<overlayIsScanning, overlayIsVisible, overlayShowItems, gearScans,
                 gearListens, tabRegistered, tabStops, scrollListener,
                 scrollChecks, gearPhase, rescanResultSent>>

\* doGearScan(overlayWin, true) settles
RescanDone(reply, items) ==
  /\ rescans > 0
  /\ rescans' = rescans - 1
  /\ IF ReplySuccess(reply)
     THEN /\ GearResult(reply, items)
          /\ rescanResultSent' = TRUE
     ELSE UNCHANGED <<itemBoxes, currentHoveredIndex, overlayIsScanning,
                      overlayIsVisible, overlayShowItems, rescanResultSent>>
  /\ UNCHANGED <<overlayWindow, ignoreMouseEvents, mouseTrackingInterval,
                 isCurrentlyInteractive, manualInteractiveMode, hoverSent, lastTick>>
  /\ UNCHANGED <<gearScans, gearListens, tabRegistered, tabStops, scrollListener,
                 scrollChecks, rescanTimeout, gearPhase>>

\* app.whenReady: createOverlayWindow() has run, nothing is registered
GearInit ==
  /\ ScanInit
  /\ DedupIdle
  /\ VersionIdle
  /\ WaitIdle
  /\ KeybindIdle
  /\ GearIdle
  /\ catalog = <<>>
  /\ dirOk = TRUE
  /\ overlayWindow = "hidden"
  /\ ignoreMouseEvents = TRUE
  /\ mouseTrackingInterval = FALSE
  /\ isCurrentlyInteractive = FALSE
  /\ manualInteractiveMode = FALSE
  /\ itemBoxes = <<>>
  /\ currentHoveredIndex = -1
  /\ hoverSent = <<>>
  /\ lastTick = <<>>

GearScanSettles ==
  /\ \E reply \in ScanReplies : \E items \in ReplyItems : GearScanDone(reply, items)
  /\ UNCHANGED <<scanVars, dedupVars, versionVars, waitVars, keybindVars>>

GearListenSettles ==
  /\ GearListenDone
  /\ UNCHANGED <<scanVars, dedupVars, versionVars, waitVars, keybindVars>>

TabStopSettles ==
  /\ \E fetched \in BOOLEAN : TabStopDone(fetched)
  /\ UNCHANGED <<scanVars, dedupVars, versionVars, waitVars, keybindVars>>

ScrollCheckSettles ==
  /\ \E detected \in BOOLEAN : ScrollCheckDone(detected)
  /\ UNCHANGED <<scanVars, dedupVars, versionVars, waitVars, keybindVars>>

RescanTimer ==
  /\ RescanTimerFires
  /\ UNCHANGED <<scanVars, dedupVars, versionVars, waitVars, keybindVars>>

RescanSettles ==
  /\ \E reply \in ScanReplies : \E items \in ReplyItems : RescanDone(reply, items)
  /\ UNCHANGED <<scanVars, dedupVars, versionVars, waitVars, keybindVars>>

UserAndTimers ==
  /\ GearHotkey \/ TabPressed \/ ScrollPollTick
  /\ UNCHANGED <<scanVars, dedupVars, versionVars, waitVars, keybindVars>>

GearNext ==
  \/ UserAndTimers
  \/ GearScanSettles
  \/ GearListenSettles
  \/ TabStopSettles
  \/ ScrollCheckSettles
  \/ RescanTimer
  \/ RescanSettles

SpecGear == GearInit /\ [][GearNext]_vars

\* every pending fetch settles and every set timer fires; the hotkey, Tab
\* and scrolling are the user's
GearFairness ==
  /\ WF_vars(GearScanSettles)
  /\ WF_vars(GearListenSettles)
  /\ WF_vars(TabStopSettles)
  /\ WF_vars(ScrollCheckSettles)
  /\ WF_vars(RescanTimer)
  /\ WF_vars(RescanSettles)

SpecGearFair == GearInit /\ [][GearNext]_vars /\ GearFairness


\* =================================================================== claims
\* a scanScreen call that has passed the isScanning guard and has not yet
\* left its finally block
InFlight(c) == kind[c] = "scan" /\ pc[c] \notin {"idle", "done"}

\* C1: single-flight.  Under every interleaving of scanScreen calls at most
\* one call is between the isScanning guard and the end of its finally
\* block, so two captures or two matching passes are never in flight
\* together.
C1_SingleFlight == Cardinality({c \in Callers : InFlight(c)}) <= 1

\* a second request arrived while the first scan was capturing
C1_Witness ==
  \E c, d \in Callers :
    /\ c # d
    /\ InFlight(c) /\ pc[c] \in {"cap_src", "cap_img"}
    /\ kind[d] = "scan" /\ outcome[d] = "in_progress"

\* C2: a scanScreen request that arrives while a scan is in progress is not
\* an error: it settles at once with an empty list, stays out of every
\* await of the scan pipeline, and initialises, loads, captures and matches
\* nothing of its own.
C2_RejectedIsNoOp ==
  [][\A c \in Callers :
       (pc[c] = "idle" /\ kind'[c] = "scan" /\ isScanning)
         => /\ pc'[c] = "done"
            /\ ret'[c] = Resolved(<<>>)
            /\ error'[c] = "none"
            /\ UNCHANGED <<isScanning, cvLoaded, templatesCache, liveMats, loadCompleted,
                           scanLoads, initing, fileIdx, loadErrors, screenData, screenGray, matches,
                           tIdx, sIdx, bestForTemplate, tried, attempts, captures>>]_vars

\* a request has been rejected while the accepted scan is still under way
C2_Witness ==
  \E c, d \in Callers :
    /\ pc[c] = "done" /\ outcome[c] = "in_progress" /\ ret[c].kind = "resolved"
    /\ InFlight(d)

\* C3: every accepted scan returns the orchestrator to Idle.  When an
\* accepted scanScreen call ends, normally or because OpenCV initialisation,
\* template loading, capture or matching raised, isScanning is false
\* afterwards, so the guard lets the next request in.
C3_BackToIdle ==
  [][\A c \in Callers :
       (InFlight(c) /\ pc'[c] = "done") => (isScanning' = FALSE /\ ~ScanInProgress')]_vars

\* an accepted scan has ended on an exception and the flag is clear
C3_Witness ==
  \E c \in Callers :
    /\ kind[c] = "scan" /\ pc[c] = "done" /\ outcome[c] = "failed"
    /\ error[c] \in {"cvtColor", "matchTemplate"}
    /\ isScanning = FALSE

\* C4: when no display source is obtainable the scan fails with a capture
\* error that reaches the caller of scanScreen, who can tell it from a
\* successful scan without detections; no other failure reaches the caller.
C4_CaptureErrorReachesCaller ==
  \A c \in Callers :
    (kind[c] = "scan" /\ pc[c] = "done")
      => /\ error[c] = "no_sources" => (ret[c].kind = "rejected" /\ ret[c] # Resolved(<<>>))
         /\ ret[c].kind = "rejected" => error[c] = "no_sources"

\* C5: a failure of resize or correlation for one template at one scale is
\* absorbed: the scan goes on, and the detections of the other templates
\* are still what the scan returns.
C5_MatchFailureAbsorbed ==
  \A c \in Callers :
    (kind[c] = "scan" /\ pc[c] = "done" /\ error[c] \in {"resize", "matchTemplate"})
      => ret[c] = Resolved(removeDuplicates(matches[c]))


Elements(seq) == {seq[i] : i \in 1..Len(seq)}

\* C6: acceptance threshold.  The step that ends a template's scale loop
\* pushes a detection exactly when the largest correlation value over the
\* scales tried is at least confidenceThreshold, and the detection carries
\* that value; every detection collected or returned has confidence at
\* least the threshold, and a returned list only holds collected detections
\* (so a scan whose templates all stay below the threshold returns none).
C6_Threshold ==
  [][\A c \in Callers :
       /\ (running = c /\ pc[c] = "emit")
            => LET best == MaxOfSet(tried[c])
                   name == templatesCache[tIdx[c]].name
               IN IF best >= confidenceThreshold
                  THEN /\ Len(matches'[c]) = Len(matches[c]) + 1
                       /\ SubSeq(matches'[c], 1, Len(matches[c])) = matches[c]
                       /\ matches'[c][Len(matches'[c])].itemId = name
                       /\ matches'[c][Len(matches'[c])].confidence = best
                  ELSE matches'[c] = matches[c]
       /\ \A m \in Elements(matches'[c]) : m.confidence >= confidenceThreshold
       /\ (kind'[c] = "scan" /\ pc'[c] = "done")
            => /\ ret'[c].kind = "resolved"
               /\ Elements(ret'[c].value) \subseteq Elements(matches'[c])]_vars

\* a scan has returned a detection whose confidence is exactly the
\* threshold, from a catalog of which another template stayed below it
C6_Witness ==
  \E c \in Callers :
    /\ kind[c] = "scan" /\ pc[c] = "done" /\ outcome[c] = "complete"
    /\ Len(templatesCache) >= 2
    /\ Len(ret[c].value) = 1
    /\ ret[c].value[1].confidence = confidenceThreshold

\* the centres of two detections are less than 20 px apart on both axes
CentresCollide(a, b) ==
  /\ Abs((2 * a.x + a.width) - (2 * b.x + b.width)) < 40
  /\ Abs((2 * a.y + a.height) - (2 * b.y + b.height)) < 40

\* C7: for every input list the output of removeDuplicates holds no two
\* detections whose centres are less than 20 px apart on the x axis and
\* less than 20 px apart on the y axis.
C7_NoCollidingPair ==
  dedupDone =>
    \A i, j \in 1..Len(dedupOut) : i # j => ~CentresCollide(dedupOut[i], dedupOut[j])

\* a list with a colliding pair was reduced, and two detections remain
C7_Witness ==
  /\ dedupDone
  /\ Len(dedupOut) = 2
  /\ Len(dedupIn) = 3
  /\ \E i, j \in 1..Len(dedupIn) : i # j /\ CentresCollide(dedupIn[i], dedupIn[j])

\* the first detection of the list that has the list's largest confidence
FirstMaxConfidence(list) ==
  list[CHOOSE i \in 1..Len(list) :
         /\ \A j \in 1..Len(list) : list[j].confidence <= list[i].confidence
         /\ \A j \in 1..(i - 1) : list[j].confidence < list[i].confidence]

\* C8: the highest-confidence detection among colliding ones wins.  The
\* maximum-confidence detection of the input (the first of them when
\* several share the maximum) is in the output, and every dropped detection
\* has its centre within tolerance of a retained detection whose confidence
\* is at least its own.
C8_HighestConfidenceWins ==
  (dedupDone /\ Len(dedupIn) > 0) =>
    /\ FirstMaxConfidence(dedupIn) \in Elements(dedupOut)
    /\ \A d \in Elements(dedupIn) \ Elements(dedupOut) :
         \E k \in Elements(dedupOut) :
           CentresCollide(k, d) /\ k.confidence >= d.confidence

\* a detection was dropped in favour of a later, higher-confidence one
C8_Witness ==
  /\ dedupDone
  /\ \E i, j \in 1..Len(dedupIn) :
       /\ i < j
       /\ dedupIn[i].confidence < dedupIn[j].confidence
       /\ CentresCollide(dedupIn[i], dedupIn[j])
       /\ dedupIn[i] \notin Elements(dedupOut)
       /\ dedupIn[j] \in Elements(dedupOut)

\* sub is seq with some entries left out, order kept
RECURSIVE IsSubSeq(_, _)
IsSubSeq(sub, seq) ==
  IF Len(sub) = 0 THEN TRUE
  ELSE IF Len(seq) = 0 THEN FALSE
  ELSE IF Head(sub) = Head(seq) THEN IsSubSeq(Tail(sub), Tail(seq))
  ELSE IsSubSeq(sub, Tail(seq))

\* no other detection of the list has its centre within tolerance of list[i]
Isolated(list, i) ==
  \A j \in 1..Len(list) : j # i => ~CentresCollide(list[i], list[j])

\* C9: removeDuplicates never suppresses an isolated detection.  A
\* detection whose centre is within tolerance of no other detection of the
\* input is in the output, and the output is a sub-list of the input: it
\* holds input detections only, each at most once, in the order of the
\* argument array as the in-place sort leaves it.
C9_IsolatedSurvives ==
  dedupDone =>
    /\ \A i \in 1..Len(dedupIn) : Isolated(dedupIn, i) => dedupIn[i] \in Elements(dedupOut)
    /\ Elements(dedupOut) \subseteq Elements(dedupIn)
    /\ Cardinality(Elements(dedupOut)) = Len(dedupOut)
    /\ Elements(dedupArr) = Elements(dedupIn) /\ Len(dedupArr) = Len(dedupIn)
    /\ IsSubSeq(dedupOut, dedupArr)

\* an isolated detection survived next to a colliding pair that lost one
C9_Witness ==
  /\ dedupDone
  /\ Len(dedupOut) < Len(dedupIn)
  /\ \E i \in 1..Len(dedupIn) : Isolated(dedupIn, i) /\ dedupIn[i] \in Elements(dedupOut)

\* C10: idempotent catalog load.  A loadTemplates call made after an
\* earlier call has completed, on the unchanged catalog directory, is a
\* no-op: it returns the count already loaded and leaves the store with the
\* same identifiers and the same template buffers.
C10_SecondLoadIsNoOp ==
  \A c \in Callers :
    (kind[c] = "load" /\ pc[c] = "done" /\ loadedBefore[c] /\ ret[c].kind = "resolved")
      => /\ templatesCache = cacheAtCall[c]
         /\ ret[c].value = Len(cacheAtCall[c])


\* the files of the catalog that decode / that do not, in directory order
RECURSIVE ValidNames(_)
ValidNames(cat) ==
  IF Len(cat) = 0 THEN <<>>
  ELSE IF cat[Len(cat)].ok
       THEN Append(ValidNames(SubSeq(cat, 1, Len(cat) - 1)), cat[Len(cat)].name)
       ELSE ValidNames(SubSeq(cat, 1, Len(cat) - 1))

RECURSIVE CorruptNames(_)
CorruptNames(cat) ==
  IF Len(cat) = 0 THEN <<>>
  ELSE IF cat[Len(cat)].ok
       THEN CorruptNames(SubSeq(cat, 1, Len(cat) - 1))
       ELSE Append(CorruptNames(SubSeq(cat, 1, Len(cat) - 1)), cat[Len(cat)].name)

\* C11: partial catalog failure.  When a loadTemplates call has gone through
\* the catalog, the store holds exactly the files that decode (in directory
\* order, each 64 x 64), the call has logged one failure message per file
\* that does not decode and none for the others, and a direct call returns
\* the number of files that decode: with one corrupt file among N, N - 1.
C11_PartialFailure ==
  [][\A c \in Callers :
       (pc[c] = "load_file" /\ pc'[c] # "load_file")
         => /\ [i \in 1..Len(templatesCache') |-> templatesCache'[i].name] = ValidNames(catalog)
            /\ \A i \in 1..Len(templatesCache') :
                 /\ templatesCache'[i].width = TemplateSize
                 /\ templatesCache'[i].height = TemplateSize
                 /\ templatesCache'[i].mat \in liveMats'
            /\ loadErrors'[c] = CorruptNames(catalog)
            /\ kind[c] = "load" => ret'[c] = Resolved(Len(ValidNames(catalog)))]_vars

\* a direct load of a catalog whose first file is corrupt and whose last
\* file decodes has returned the count of the valid files
C11_Witness ==
  \E c \in Callers :
    /\ kind[c] = "load" /\ pc[c] = "done" /\ outcome[c] = "loaded"
    /\ Len(catalog) >= 2
    /\ ~catalog[1].ok /\ catalog[Len(catalog)].ok
    /\ Len(loadErrors[c]) = 1
    /\ ret[c] = Resolved(Len(catalog) - 1)
    /\ Len(templatesCache) = Len(catalog) - 1


\* C12: the catalog is materialised exactly once per process.  Over every
\* sequence of scanScreen calls the scans call loadTemplates at most once
\* in all, whatever the first load produced (templates, an empty directory,
\* an unreadable one).
C12_LoadedOnce == scanLoads <= 1


\* a step of the scale loop of caller c that correlated or skipped a scale
ScaleStep(c) == running = c /\ pc[c] = "match" /\ pc'[c] \in {"match", "emit"}

\* C13: best-scale selection.  Throughout the scale loop the value kept for
\* the template is the largest correlation value over the scales tried so
\* far (-1 before any); a scale whose value exceeds every earlier one takes
\* over with its own location and scale factor, and a scale whose value
\* only equals the largest so far changes nothing, so of two scales with the
\* same maximum the one tried first, the smaller, is kept.
C13_BestScale ==
  [][\A c \in Callers :
       /\ (running' = c /\ pc'[c] \in {"match", "emit"})
            => bestForTemplate'[c].val = MaxOfSet(tried'[c])
       /\ ScaleStep(c)
            => IF MaxOfSet(tried'[c]) > MaxOfSet(tried[c])
               THEN /\ bestForTemplate'[c].scale = scales[sIdx[c]]
                    /\ \E r \in MinMaxResults :
                         /\ r.maxVal = MaxOfSet(tried'[c])
                         /\ r.maxLoc = <<bestForTemplate'[c].x, bestForTemplate'[c].y>>
               ELSE bestForTemplate'[c] = bestForTemplate[c]]_vars

\* all five scales gave the same value and the first scale is the one kept
C13_Witness ==
  \E c \in Callers :
    /\ running = c /\ pc[c] = "emit"
    /\ attempts[c] = Len(scales)
    /\ tried[c] = {confidenceThreshold + 10}
    /\ bestForTemplate[c].val = confidenceThreshold + 10
    /\ bestForTemplate[c].scale = scales[1]

\* C14: a detection is of one scale.  Whenever the scale loop replaces the
\* best candidate, its value, location, scale factor, width and height all
\* come from the scale being tried, with width and height the rounded
\* products of the template's size and that scale; the detection pushed
\* for a template copies the candidate's location, size and value, so its
\* width and height are round(template size * s) for the scale s of its
\* confidence; and the detections returned are among those pushed.
C14_OneScale ==
  [][\A c \in Callers :
       /\ (ScaleStep(c) /\ bestForTemplate'[c] # bestForTemplate[c])
            => LET best == bestForTemplate'[c]
                   template == templatesCache[tIdx[c]]
               IN /\ best.scale = scales[sIdx[c]]
                  /\ best.width = Round(template.width, best.scale)
                  /\ best.height = Round(template.height, best.scale)
                  /\ best.val \in tried'[c] \ tried[c]
                  /\ \E r \in MinMaxResults :
                       r.maxVal = best.val /\ r.maxLoc = <<best.x, best.y>>
       /\ (running = c /\ pc[c] = "emit" /\ Len(matches'[c]) > Len(matches[c]))
            => LET d == matches'[c][Len(matches'[c])]
                   best == bestForTemplate[c]
                   template == templatesCache[tIdx[c]]
               IN /\ d.width = Round(template.width, best.scale)
                  /\ d.height = Round(template.height, best.scale)
                  /\ d.x = best.x /\ d.y = best.y /\ d.confidence = best.val
                  /\ d.itemId = template.name
       /\ (kind'[c] = "scan" /\ pc'[c] = "done" /\ ret'[c].kind = "resolved")
            => Elements(ret'[c].value) \subseteq Elements(matches'[c])]_vars

\* a scan has returned a detection found at scale 0.9: 58 x 58 at (300, 200)
C14_Witness ==
  \E c \in Callers :
    /\ kind[c] = "scan" /\ pc[c] = "done" /\ outcome[c] = "complete"
    /\ \E d \in Elements(ret[c].value) :
         /\ d.width = Round(TemplateSize, scales[2]) /\ d.height = Round(TemplateSize, scales[2])
         /\ d.width # TemplateSize
         /\ d.x = 300 /\ d.y = 200
         /\ d.confidence = confidenceThreshold + 10


\* C15: no stale frame.  A scan holds no frame when it is accepted, calls
\* captureScreen at most once, and gets its frame only from that call; the
\* frame and its grayscale Mat are the scan's own throughout the matching
\* pass, and they are dropped when the call returns, so no scan matches
\* against a frame that an earlier scan captured.
C15_FreshFrame ==
  [][\A c \in Callers :
       /\ (pc[c] = "idle" /\ kind'[c] = "scan")
            => screenData'[c] = NoFrame /\ screenGray'[c] = NoMat /\ captures'[c] = 0
       /\ captures'[c] <= 1
       /\ screenData'[c] # screenData[c]
            => \/ pc[c] = "cap_img" /\ pc'[c] = "prepare" /\ captures[c] = 1
                  /\ screenData[c] = NoFrame
               \/ pc[c] = "done" /\ pc'[c] = "idle" /\ screenData'[c] = NoFrame
       /\ (running' = c /\ pc'[c] \in {"match", "emit"})
            => /\ screenData'[c] # NoFrame
               /\ captures'[c] = 1
               /\ screenGray'[c] \in liveMats' /\ screenGray'[c].role = "screenGray"
               /\ \A d \in Callers \ {c} :
                    screenData'[d] = NoFrame /\ screenGray'[d] = NoMat]_vars

\* a scan that found the templates loaded by an earlier scan is matching
\* on the frame of its own single capture
C15_Witness ==
  \E c \in Callers :
    /\ running = c /\ pc[c] = "match"
    /\ scanLoads = 1 /\ fileIdx[c] = 0 /\ calls = 2
    /\ captures[c] = 1
    /\ screenData[c] # NoFrame


\* the call that takes the step, if the step is one of loadTemplates called
\* directly
DirectLoadStep(c) ==
  /\ kind[c] = "load"
  /\ <<pc[c], fileIdx[c]>> # <<pc'[c], fileIdx'[c]>>

\* C16: templates are read-only after the initial load.  Once a
\* loadTemplates call has gone through the catalog and the store is not
\* empty, no step of a scanScreen call adds, removes, replaces or modifies a
\* template entry: the store changes only in steps of direct loadTemplates
\* calls.
C16_ReadOnlyAfterLoad ==
  [][(loadCompleted /\ ~CacheIsEmpty /\ templatesCache' # templatesCache)
       => \E c \in Callers : DirectLoadStep(c)]_vars

\* C17: no buffer outlives its scan.  Whenever a scanScreen call has ended,
\* normally or on an exception, every cv.Mat still allocated is a template
\* buffer: the frame Mats, the scaled templates and the correlation results
\* of the scan have been deleted.
C17_NoBufferOutlivesScan ==
  \A c \in Callers :
    (kind[c] = "scan" /\ pc[c] = "done") => \A m \in liveMats : m.role = "template"


\* a version string of at least three parts of which the first three are
\* decimal numerals: major.minor.patch
IsNumeral(text) == Len(text) > 0 /\ \A i \in 1..Len(text) : IsDigit(text[i])
WellFormedVersion(str) ==
  LET texts == SplitDots(str)
  IN Len(texts) >= 3 /\ \A i \in 1..3 : IsNumeral(texts[i])

\* latest is greater than current by major, then minor, then patch
StrictlyGreater(cur, lat) ==
  \/ lat[1] > cur[1]
  \/ lat[1] = cur[1] /\ lat[2] > cur[2]
  \/ lat[1] = cur[1] /\ lat[2] = cur[2] /\ lat[3] > cur[3]

\* C19: isNewerVersion(current, latest) is true exactly when latest is
\* strictly greater than current in the numeric order of major, then minor,
\* then patch (for version strings whose first three parts are numerals);
\* it is false for equal versions; and for every pair of strings, well
\* formed or not, isNewerVersion(a, b) and isNewerVersion(b, a) are never
\* both true.
C19_NewerVersion ==
  verDone =>
    /\ ~(verResult /\ verReverse)
    /\ verCurrent = verLatest => ~verResult
    /\ (WellFormedVersion(verCurrent) /\ WellFormedVersion(verLatest))
         => LET cur == VersionPartsOf(verCurrent)
                lat == VersionPartsOf(verLatest)
            IN /\ verResult <=> StrictlyGreater(cur, lat)
               /\ verReverse <=> StrictlyGreater(lat, cur)
               /\ (\A i \in 1..3 : cur[i] = lat[i]) => (~verResult /\ ~verReverse)

\* 0.9.x against 0.10.x: newer by the number, though "10" sorts before "9"
\* as text
C19_Witness ==
  /\ verDone
  /\ WellFormedVersion(verCurrent) /\ WellFormedVersion(verLatest)
  /\ VersionPartsOf(verCurrent)[1] = VersionPartsOf(verLatest)[1]
  /\ VersionPartsOf(verCurrent)[2] = 9
  /\ VersionPartsOf(verLatest)[2] = 10
  /\ VersionPartsOf(verCurrent)[3] > VersionPartsOf(verLatest)[3]
  /\ verResult /\ ~verReverse


\* the scaled template is no wider and no higher than the frame
Fits(template, scale, frame) ==
  /\ Round(template.width, scale) <= frame.width
  /\ Round(template.height, scale) <= frame.height

\* C20: scale skip.  In each pass of the scale loop a correlation is
\* attempted (it returns a value, or resize or matchTemplate throws)
\* exactly when the rounded scaled width and height do not exceed the
\* frame's; a skipped scale leaves the candidate untouched and the loop
\* goes on; and a template all of whose scales were skipped pushes no
\* detection and the scan goes on to the next template or to the end.
C20_ScaleSkip ==
  [][\A c \in Callers :
       /\ (running = c /\ pc[c] = "match")
            => LET template == templatesCache[tIdx[c]]
                   fits == Fits(template, scales[sIdx[c]], screenData[c])
                   attempted ==
                     \/ attempts'[c] = attempts[c] + 1
                     \/ pc'[c] = "done" /\ error'[c] \in {"resize", "matchTemplate"}
               IN /\ attempted <=> fits
                  /\ ~fits => /\ pc'[c] \in {"match", "emit"}
                              /\ bestForTemplate'[c] = bestForTemplate[c]
                              /\ liveMats' = liveMats
       /\ (running = c /\ pc[c] = "emit" /\ attempts[c] = 0)
            => /\ matches'[c] = matches[c]
               /\ pc'[c] \in {"match", "dedupe"}
               /\ isScanning' = isScanning /\ error'[c] = error[c]]_vars

\* a scan of a 40 x 40 frame, which no scaled template fits, has completed
\* without a detection; the catalog was loaded
C20_Witness ==
  \E c \in Callers :
    /\ kind[c] = "scan" /\ pc[c] = "done" /\ outcome[c] = "complete"
    /\ ~CacheIsEmpty
    /\ screenData[c].width < Round(TemplateSize, scales[1])
    /\ ret[c] = Resolved(<<>>)


\* C21: pipeline order within one accepted scan.  captureScreen is entered
\* only after the store was found non-empty or loadTemplates has returned;
\* the template loop starts only with the frame of the scan's capture; the
\* deduplication is reached only from the end of the template loop (or
\* with an empty store), runs once, and what it returns for the matches
\* collected is what the caller gets.
C21_PipelineOrder ==
  [][\A c \in Callers :
       (kind[c] = "scan" /\ pc'[c] # pc[c])
         => /\ pc'[c] = "cap_src"
                 => \/ pc[c] = "scan_cv" /\ ~CacheIsEmpty
                    \/ pc[c] = "load_dir" /\ (~dirOk \/ Len(catalog) = 0)
                    \/ pc[c] = "load_file" /\ fileIdx[c] = Len(catalog)
            /\ pc'[c] = "match"
                 => \/ pc[c] = "prepare" /\ captures[c] = 1 /\ screenData[c] # NoFrame
                       /\ tIdx'[c] = 1 /\ matches'[c] = <<>>
                    \/ pc[c] = "emit" /\ tIdx[c] < Len(templatesCache)
                       /\ tIdx'[c] = tIdx[c] + 1
            /\ pc'[c] = "dedupe"
                 => \/ pc[c] = "emit" /\ tIdx[c] = Len(templatesCache)
                    \/ pc[c] = "prepare" /\ CacheIsEmpty /\ captures[c] = 1
            /\ pc[c] = "dedupe"
                 => /\ pc'[c] = "done" /\ outcome'[c] = "complete"
                    /\ ret'[c] = Resolved(WalkSorted(<<>>, SortMatches(matches[c])))
            /\ (pc'[c] = "done" /\ outcome'[c] = "complete") => pc[c] = "dedupe"]_vars

\* a scan that loaded two templates and matched both has returned the one
\* detection the deduplication kept of the two collected
C21_Witness ==
  \E c \in Callers :
    /\ kind[c] = "scan" /\ pc[c] = "done" /\ outcome[c] = "complete"
    /\ fileIdx[c] = 2 /\ captures[c] = 1
    /\ Len(matches[c]) = 2
    /\ Len(ret[c].value) = 1

\* C26: a rejected request leaves the in-progress flag untouched.  While a
\* scan is active, the step that rejects a scanScreen call and the return
\* of the rejected call leave isScanning true; the flag falls only in the
\* step in which the active scan itself ends.
C26_RejectKeepsFlag ==
  [][\A c \in Callers :
       /\ (pc[c] = "idle" /\ kind'[c] = "scan" /\ isScanning)
            => isScanning' /\ outcome'[c] = "in_progress"
       /\ (pc[c] = "done" /\ outcome[c] = "in_progress" /\ pc'[c] = "idle")
            => isScanning' = isScanning
       /\ (isScanning /\ ~isScanning')
            => \E d \in Callers : InFlight(d) /\ pc'[d] = "done"]_vars

\* the rejected call has returned and the scan it ran into is still
\* active, with the flag set
C26_Witness ==
  \E c \in Callers :
    /\ InFlight(c) /\ isScanning
    /\ calls = 2
    /\ \A d \in Callers \ {c} : pc[d] = "idle" /\ kind[d] = "none"

\* C27: a scan never matches against a partially loaded catalog.  In the
\* matching pass of a scan the store holds every file of the catalog that
\* decodes, also when a preload was still running when the scan was
\* accepted.
C27_WholeCatalogMatched ==
  \A c \in Callers :
    (kind[c] = "scan" /\ pc[c] \in {"match", "emit", "dedupe"})
      => [i \in 1..Len(templatesCache) |-> templatesCache[i].name] = ValidNames(catalog)

\* C22: while the manual interactive mode is on, no tracking tick changes
\* whether the overlay window ignores mouse events, wherever the cursor
\* is; as long as the window exists, only a setOverlayInteractive call does.
C22_ManualModeRespected ==
  [][/\ ((manualInteractiveMode /\ \E cursorPos \in CursorPoints : MouseTick(cursorPos))
            => ignoreMouseEvents' = ignoreMouseEvents)
      /\ ((/\ manualInteractiveMode
            /\ overlayWindow # "null"
            /\ overlayWindow' # "null"
            /\ ignoreMouseEvents' # ignoreMouseEvents)
            => CallSetOverlayInteractive)]_vars

\* a tick has run in manual mode with the cursor outside the toggle zone,
\* and the window still takes mouse events
C22_Witness ==
  /\ lastTick # <<>>
  /\ lastTick[2] = TRUE
  /\ ~isInToggleZone(lastTick[1])
  /\ manualInteractiveMode /\ isCurrentlyInteractive
  /\ overlayWindow = "visible"
  /\ ~ignoreMouseEvents

\* C23: each item-hover event carries an index different from the index
\* carried by the previously sent item-hover event, over all sequences of
\* ticks, setItemBoxes and clearItemBoxes calls.
C23_HoverIndexChanges ==
  Len(hoverSent) = 2 => hoverSent[1] # hoverSent[2]

\* C24: scanner-service start-up progress.  Every loadingState published
\* while waitForService is polling has isLoading true and a progress
\* between 0 and 90 that is not lower than the one published before;
\* progress 100 with isLoading false is published only after the service
\* answered OK; and waitForService stops with an error after maxRetries
\* unanswered attempts.
C24_StartupProgress ==
  /\ [](/\ (wsPc \in {"fetch", "sleep", "failed"}
             => (/\ loadingState.isLoading
                 /\ loadingState.progress >= 0
                 /\ loadingState.progress <= ProgressCap
                 /\ (loadingSent = <<>>
                     \/ (/\ loadingSent[1].isLoading
                         /\ loadingSent[1].progress >= 0
                         /\ loadingSent[1].progress <= loadingState.progress))))
         /\ ((loadingState.progress = 100 \/ ~loadingState.isLoading)
             => (/\ wsPc = "ready"
                 /\ wsResponse = "ok"
                 /\ loadingState = [isLoading |-> FALSE, progress |-> 100]))
         /\ ((loadingSent # <<>> /\ ~loadingSent[1].isLoading)
             => (wsPc = "ready" /\ wsResponse = "ok"))
         /\ (wsPc = "failed"
             => (wsUnanswered = wsMaxRetries /\ wsResponse # "ok")))
  /\ [][/\ loadingState'.progress >= loadingState.progress
         /\ ((loadingSent # <<>> /\ loadingSent' # <<>>)
              => loadingSent'[1].progress >= loadingSent[1].progress)]_vars

\* the default 600 retries ran out, the last progress published being 89
C24_Witness ==
  /\ wsPc = "failed"
  /\ wsMaxRetries = DefaultMaxRetries
  /\ loadingState.progress = 89
  /\ loadingSent # <<>>

\* C25: keybind uniqueness in the settings dialog.  From the default
\* keybinds, after any sequence of rebind, clear and reset actions gearScan
\* and ocrScan are never bound to the same non-empty key; and a key press
\* equal to the other action's key leaves the keybinds unchanged, shows an
\* error and sends no update to the main process.
C25_KeybindsUnique ==
  /\ [](keybinds.gearScan # NoKey => keybinds.gearScan # keybinds.ocrScan)
  /\ [][\A e \in KeyEvents :
          (/\ listening # "null"
           /\ FinalKey(e) = keybinds[OtherAction(listening)]
           /\ KeyDown(e))
          => (/\ keybinds' = keybinds
              /\ keybindError' # "null"
              /\ updateSeq' = updateSeq)]_vars

\* C28: once the Tab handler has hidden the overlay and stopped scroll
\* polling, and until the hotkey is pressed again, no scroll-triggered
\* re-scan reports success, the step that sends gear-scan-result with
\* success to the overlay and stores the item boxes.
C28_NoRescanAfterTab ==
  gearPhase \in {"hidden", "closed"} => ~rescanResultSent

\* C29: every gear-scan-start sent to the overlay is eventually followed
\* by a gear-scan-result: the overlay's scan-in-progress indicator is
\* eventually cleared, whatever the scanner service replies.
C29_ScanResultFollows == overlayIsScanning ~> ~overlayIsScanning

====
